---- MODULE Spec2Model ----
(***************************************************************************)
(* luna: navigation over decoded JSON with deferred, sticky errors.        *)
(*                                                                         *)
(* Two implementations of the accessor protocol are modelled:              *)
(*   - the struct implementation with paths (Map in the luna package,      *)
(*     Array in array.go, path in path.go);                                *)
(*   - the interface implementation of json.go (valueMap / errorMap /      *)
(*     valueArray / errorArray).                                           *)
(* A behaviour is one call chain: a constructor, navigation calls, and a   *)
(* terminal call.                                                          *)
(***************************************************************************)
EXTENDS Integers, Sequences, FiniteSets, TLC

VARIABLES
    phase,   \* "start" (nothing constructed), "chain" (an accessor is held), "done" (a terminal
             \* or Must* call returned), "panicked" (a Must* call panicked), "redecoded" (the
             \* bytes a call returned were decoded again)
    input,   \* the argument of the constructor: JSON bytes or a native container
    root,    \* the accessor the constructor returned
    acc,     \* the accessor returned by the last constructor or navigation call
    recv,    \* the receiver of the last call (NoAcc for a constructor)
    call,    \* the last call: [op, key, idx]
    chain,   \* history: the calls made after the constructor, up to and including the first
             \* one that left an error, each with the error it left
    ret,     \* what the terminal call returned: [val, err], NoRet before it
    pnc,     \* the value the last call panicked with, NilErr when it returned
    again,   \* what a second run of the last call on the same receiver gave, NoOutcome
             \* when the call was run once
    from,    \* the accessor whose serialized bytes the last constructor decoded, NoAcc otherwise
    readers  \* concurrent readers of one shared accessor: for each its position in its
             \* call, the accessor it holds, its calls, the receiver copied for the
             \* call in progress, and what its terminal call returned

vars == <<phase, input, root, acc, recv, call, chain, ret, pnc, again, from, readers>>

(***************************************************************************)
(* Bounds of the exploration.                                              *)
(***************************************************************************)
\* indices passed to indexed operations range over -1 .. MaxIdx
MaxIdx == 3
\* concurrent readers, and calls each reader makes
NumReaders == 2
MaxCalls == 2

(***************************************************************************)
(* The value tree: what encoding/json decodes into interface{}.  The tag   *)
(* t is the dynamic Go type as %T prints it.  Numbers are float64 and are  *)
(* held in tenths (895 is 89.5).                                           *)
(***************************************************************************)
NilT == "<nil>"
StrT == "string"
NumT == "float64"
BoolT == "bool"
ArrT == "[]interface {}"
ObjT == "map[string]interface {}"

NilV == [t |-> NilT]
StrV(s) == [t |-> StrT, s |-> s]
NumV(n) == [t |-> NumT, n |-> n]
BoolV(b) == [t |-> BoolT, b |-> b]
ArrV(a) == [t |-> ArrT, a |-> a]
ObjV(m) == [t |-> ObjT, m |-> m]

\* typed results of terminal calls
IntV(i) == [t |-> "int", i |-> i]
BytesV(s) == [t |-> "[]byte", s |-> s]

\* len(x) of a map or slice field; a nil map or slice has length 0
LenOf(v) ==
    IF v.t = ArrT THEN Len(v.a)
    ELSE IF v.t = ObjT THEN Cardinality(DOMAIN v.m)
    ELSE 0

\* mutant: a key whose value is null is reported as absent
HasKeyUnlessNull(mv, key) == mv.t = ObjT /\ key \in DOMAIN mv.m /\ mv.m[key] # NilV

\* _, ok := m[key] on a (possibly nil) map
HasKey(mv, key) == mv.t = ObjT /\ key \in DOMAIN mv.m

\* m[key] on a (possibly nil) map: the zero interface value when absent
MapIndex(mv, key) == IF HasKey(mv, key) THEN mv.m[key] ELSE NilV

\* a[idx] for an index already validated (Go indices start at 0)
SliceIndex(av, idx) == av.a[idx + 1]

\* the orders in which `for k := range m` may visit the keys of m
RangeOrders(mv) ==
    IF mv.t = ObjT
    THEN {o \in [1 .. Cardinality(DOMAIN mv.m) -> DOMAIN mv.m] :
            \A i, j \in DOMAIN o : i # j => o[i] # o[j]}
    ELSE {<<>>}

RECURSIVE Join(_, _)
\* strings.Join(elems, sep)
Join(elems, sep) ==
    IF Len(elems) = 0 THEN ""
    ELSE IF Len(elems) = 1 THEN elems[1]
    ELSE elems[1] \o sep \o Join(Tail(elems), sep)

(***************************************************************************)
(* Errors.  An error built by fmt.Errorf is its format and its rendered    *)
(* arguments: two errors have the same text iff both agree.                *)
(***************************************************************************)
NilErr == [fmt |-> "<nil>", args |-> <<>>]
Errorf(format, args) == [fmt |-> format, args |-> args]

(***************************************************************************)
(* Paths (path.go).                                                        *)
(***************************************************************************)
appendKey(p, key) == p \o "['" \o key \o "']"
appendIndex(p, idx) == p \o "[" \o ToString(idx) \o "]"

(***************************************************************************)
(* Inputs.  JSON bytes are held as the value they denote; Malformed is a   *)
(* byte sequence that is not JSON.                                         *)
(***************************************************************************)
Malformed == [t |-> "malformed"]

\* README.md / TestReadme, shortened: {"people":[{"name":"alice","score":89.5}]}
DocReadme ==
    ObjV([k \in {"people"} |->
        ArrV(<< ObjV([j \in {"name", "score"} |->
                    IF j = "name" THEN StrV("alice") ELSE NumV(895)]) >>)])

\* all_test.go simpleJson, shortened, its numbers made -4.9, 4.9 and 42:
\* {"object":{"nestedArrayFloatKey":[[-4.9,4.9,42]],"arrayStrKey":["str1","str2"]}}
DocSimple ==
    ObjV([k \in {"object"} |->
        ObjV([j \in {"nestedArrayFloatKey", "arrayStrKey"} |->
            IF j = "nestedArrayFloatKey" THEN ArrV(<< ArrV(<<NumV(-49), NumV(49), NumV(420)>>) >>)
            ELSE ArrV(<<StrV("str1"), StrV("str2")>>)])])

\* an array document with a null member, a null element and an empty array:
\* [{"k":null,"b":true},[null],[]]
DocArray ==
    ArrV(<< ObjV([k \in {"k", "b"} |-> IF k = "k" THEN NilV ELSE BoolV(TRUE)]),
            ArrV(<<NilV>>),
            ArrV(<<>>) >>)

\* the byte sequences handed to the FromBytes / FromReader constructors
Bytes == {DocReadme, DocSimple, DocArray, NilV, Malformed}
\* the native containers handed to NewMap / NewArray
NativeMaps == {DocReadme, DocSimple, NilV}
NativeArrays == {DocArray, ArrV(<<>>), NilV}

RECURSIVE KeysIn(_)
\* every object key occurring in a value
KeysIn(v) ==
    IF v.t = ObjT THEN DOMAIN v.m \cup UNION {KeysIn(v.m[k]) : k \in DOMAIN v.m}
    ELSE IF v.t = ArrT THEN UNION {KeysIn(v.a[i]) : i \in DOMAIN v.a}
    ELSE {}

\* keys passed to keyed operations: the keys of the document and an absent one
Keys == KeysIn(input) \cup {"entries"}
Idxs == -1 .. MaxIdx

NoAcc == [typ |-> "none"]
NoRet == [val |-> NilV, err |-> NilErr, set |-> FALSE]
NoCall == [on |-> "none", op |-> "none", key |-> "", idx |-> 0]


Ret(val, err) == [val |-> val, err |-> err, set |-> TRUE]

\* what a call gave: the accessor held after it, what it returned, what it panicked with
Outcome(a, r, p) == [acc |-> a, ret |-> r, pnc |-> p, set |-> TRUE]
NoOutcome == [acc |-> NoAcc, ret |-> NoRet, pnc |-> NilErr, set |-> FALSE]
NoFrom == [acc |-> NoAcc, op |-> "none"]

\* the goroutines that read one shared accessor, and a reader that has made no call
Readers == 1 .. NumReaders
NoReaders ==
    [r \in Readers |->
        [pc |-> "idle", cur |-> NoAcc, steps |-> <<>>, rcv |-> NoAcc, out |-> NoRet]]

(***************************************************************************)
(* encoding/json as the constructors use it: json.Unmarshal(bytes, &field) *)
(* and json.NewDecoder(r).Decode(&field), field of dynamic type target.    *)
(* JSON null leaves the field nil and is no error.                         *)
(***************************************************************************)
JSONKind(b) ==
    IF b.t = ObjT THEN "object"
    ELSE IF b.t = ArrT THEN "array"
    ELSE IF b.t = StrT THEN "string"
    ELSE IF b.t = NumT THEN "number"
    ELSE "bool"

Unmarshal(b, target) ==
    IF b = Malformed
    THEN [v |-> NilV, err |-> Errorf("invalid character '%c' looking for beginning of value", <<"x">>)]
    ELSE IF b.t = NilT THEN [v |-> NilV, err |-> NilErr]
    ELSE IF b.t = target THEN [v |-> b, err |-> NilErr]
    ELSE [v |-> NilV,
          err |-> Errorf("json: cannot unmarshal %s into Go value of type %s", <<JSONKind(b), target>>)]

\* int(f) of a float64 held in tenths: the fraction is dropped
\* mutant: the conversion rounds down
IntOfFloatFloor(n) == n \div 10

IntOfFloat(n) == IF n >= 0 THEN n \div 10 ELSE -((-n) \div 10)

(***************************************************************************)
(* Serialized JSON is a sequence of lexical tokens.                        *)
(***************************************************************************)
\* a token: its kind k (a punctuation mark, a literal, "str" or "num") and the
\* string or number it carries
Tok(k, str, n) == [k |-> k, s |-> str, n |-> n]

\* encoding/json writes the members of a map in sorted key order: one fixed
\* order for each key set
SortedKeys(m) == CHOOSE o \in RangeOrders(ObjV(m)) : TRUE

RECURSIVE MarshalValue(_)
RECURSIVE MarshalElems(_, _)
RECURSIVE MarshalMembers(_, _, _)
\* json.Marshal of a value of the tree; a nil map, slice or interface is null
MarshalValue(v) ==
    IF v.t = NilT THEN <<Tok("null", "", 0)>>
    ELSE IF v.t = BoolT THEN <<Tok(IF v.b THEN "true" ELSE "false", "", 0)>>
    ELSE IF v.t = NumT THEN <<Tok("num", "", v.n)>>
    ELSE IF v.t = StrT THEN <<Tok("str", v.s, 0)>>
    ELSE IF v.t = ArrT THEN <<Tok("[", "", 0)>> \o MarshalElems(v.a, 1) \o <<Tok("]", "", 0)>>
    ELSE <<Tok("{", "", 0)>> \o MarshalMembers(v.m, SortedKeys(v.m), 1) \o <<Tok("}", "", 0)>>

MarshalElems(a, i) ==
    IF i > Len(a) THEN <<>>
    ELSE (IF i > 1 THEN <<Tok(",", "", 0)>> ELSE <<>>)
         \o MarshalValue(a[i]) \o MarshalElems(a, i + 1)

MarshalMembers(m, order, i) ==
    IF i > Len(order) THEN <<>>
    ELSE (IF i > 1 THEN <<Tok(",", "", 0)>> ELSE <<>>)
         \o <<Tok("str", order[i], 0), Tok(":", "", 0)>> \o MarshalValue(m[order[i]])
         \o MarshalMembers(m, order, i + 1)

\* json.Marshal(x) of the inner map or slice
Marshal(v) == BytesV(MarshalValue(v))

\* json.Marshal of a struct all of whose fields are unexported: {}
MarshalStruct == BytesV(<<Tok("{", "", 0), Tok("}", "", 0)>>)

(***************************************************************************)
(* The decoder's scanner: the value a token sequence denotes, Malformed    *)
(* when it is not one JSON value.  A parse result is [ok, v, next].        *)
(***************************************************************************)
ParseFail == [ok |-> FALSE, v |-> NilV, next |-> 0]
Parsed(v, next) == [ok |-> TRUE, v |-> v, next |-> next]
TokAt(toks, i) == IF i <= Len(toks) THEN toks[i] ELSE Tok("eof", "", 0)
PutKey(m, key, v) == [x \in DOMAIN m \cup {key} |-> IF x = key THEN v ELSE m[x]]

RECURSIVE ParseValue(_, _)
RECURSIVE ParseElems(_, _, _)
RECURSIVE ParseMembers(_, _, _)
ParseValue(toks, i) ==
    LET t == TokAt(toks, i)
    IN  IF t.k = "null" THEN Parsed(NilV, i + 1)
        ELSE IF t.k = "true" THEN Parsed(BoolV(TRUE), i + 1)
        ELSE IF t.k = "false" THEN Parsed(BoolV(FALSE), i + 1)
        ELSE IF t.k = "num" THEN Parsed(NumV(t.n), i + 1)
        ELSE IF t.k = "str" THEN Parsed(StrV(t.s), i + 1)
        ELSE IF t.k = "[" THEN
            IF TokAt(toks, i + 1).k = "]" THEN Parsed(ArrV(<<>>), i + 2)
            ELSE ParseElems(toks, i + 1, <<>>)
        ELSE IF t.k = "{" THEN
            IF TokAt(toks, i + 1).k = "}"
            THEN Parsed(ObjV([x \in {} |-> NilV]), i + 2)
            ELSE ParseMembers(toks, i + 1, [x \in {} |-> NilV])
        ELSE ParseFail

\* the elements of an array from token i on, after those in done
ParseElems(toks, i, done) ==
    LET e == ParseValue(toks, i)
    IN  IF ~e.ok THEN ParseFail
        ELSE IF TokAt(toks, e.next).k = "]"
        THEN Parsed(ArrV(Append(done, e.v)), e.next + 1)
        ELSE IF TokAt(toks, e.next).k = ","
        THEN ParseElems(toks, e.next + 1, Append(done, e.v))
        ELSE ParseFail

\* the members of an object from token i on, after those in done
ParseMembers(toks, i, done) ==
    IF TokAt(toks, i).k # "str" \/ TokAt(toks, i + 1).k # ":" THEN ParseFail
    ELSE LET e == ParseValue(toks, i + 2)
             m == PutKey(done, toks[i].s, e.v)
         IN  IF ~e.ok THEN ParseFail
             ELSE IF TokAt(toks, e.next).k = "}" THEN Parsed(ObjV(m), e.next + 1)
             ELSE IF TokAt(toks, e.next).k = "," THEN ParseMembers(toks, e.next + 1, m)
             ELSE ParseFail

\* the JSON value a byte sequence denotes
Decode(b) ==
    LET r == ParseValue(b.s, 1)
    IN  IF r.ok /\ r.next = Len(b.s) + 1 THEN r.v ELSE Malformed

(***************************************************************************)
(* What a Must* method does: it returns a value or panics with an error.   *)
(***************************************************************************)
Return(v) == [val |-> v, panic |-> NilErr]
Panic(e) == [val |-> NilV, panic |-> e]

(***************************************************************************)
(* The struct implementation: Map{m, path, err} and Array{a, path, err}.   *)
(***************************************************************************)
MapAcc(m, p, err) == [typ |-> "Map", m |-> m, path |-> p, err |-> err]
ArrayAcc(a, p, err) == [typ |-> "Array", a |-> a, path |-> p, err |-> err]

newMapAtRoot == MapAcc(NilV, "$", NilErr)

\* mutant: the decoder's error is dropped
MapFromBytesDropsError(jsonBytes) ==
    LET m == newMapAtRoot
        u == Unmarshal(jsonBytes, ObjT)
    IN  [m EXCEPT !.m = u.v]

MapFromBytes(jsonBytes) ==
    LET m == newMapAtRoot
        u == Unmarshal(jsonBytes, ObjT)
    IN  IF u.err # NilErr THEN MapAcc(NilV, "$", u.err)
        ELSE [m EXCEPT !.m = u.v]

MapFromReader(r) ==
    LET m == newMapAtRoot
        u == Unmarshal(r, ObjT)
    IN  IF u.err # NilErr THEN MapAcc(NilV, "$", u.err)
        ELSE [m EXCEPT !.m = u.v]

NewMap(m) == MapAcc(m, "$", NilErr)

\* var a Array: the zero value, whose path is the empty string
ArrayFromBytes(jsonBytes) ==
    LET a == ArrayAcc(NilV, "", NilErr)
        u == Unmarshal(jsonBytes, ArrT)
    IN  IF u.err # NilErr THEN ArrayAcc(NilV, "$", u.err)
        ELSE [a EXCEPT !.a = u.v]

ArrayFromReader(r) ==
    LET a == ArrayAcc(NilV, "", NilErr)
        u == Unmarshal(r, ArrT)
    IN  IF u.err # NilErr THEN ArrayAcc(NilV, "$", u.err)
        ELSE [a EXCEPT !.a = u.v]

NewArray(a) == ArrayAcc(a, "$", NilErr)

MapErr(m) == Ret(NilV, m.err)

\* mutant: Has treats an absent key as an error
MapHasFailsOnAbsence(m, key) ==
    IF m.err # NilErr THEN Ret(BoolV(FALSE), m.err)
    ELSE IF ~HasKey(m.m, key)
    THEN Ret(BoolV(FALSE), Errorf("key '%s' not found at path %s, valid keys: %+v",
                                  <<key, m.path, "">>))
    ELSE Ret(BoolV(TRUE), NilErr)

MapHas(m, key) ==
    IF m.err # NilErr THEN Ret(BoolV(FALSE), m.err)
    ELSE Ret(BoolV(HasKey(m.m, key)), NilErr)

\* order: the order in which the range loop visits the keys
\* mutant: the message reports the path extended with the missing key
MapvalidateKeyExtendedPath(m, key, order) ==
    LET h == MapHas(m, key)
    IN  IF h.err # NilErr THEN h.err
        ELSE IF ~h.val.b
        THEN Errorf("key '%s' not found at path %s, valid keys: %+v",
                    <<key, appendKey(m.path, key), Join(order, ", ")>>)
        ELSE NilErr

\* mutant: the loop that collects the valid keys stops one key short
MapvalidateKeyDropsKey(m, key, order) ==
    LET h == MapHas(m, key)
    IN  IF h.err # NilErr THEN h.err
        ELSE IF ~h.val.b
        THEN Errorf("key '%s' not found at path %s, valid keys: %+v",
                    <<key, m.path, Join(SubSeq(order, 1, Len(order) - 1), ", ")>>)
        ELSE NilErr

MapvalidateKey(m, key, order) ==
    LET h == MapHas(m, key)
    IN  IF h.err # NilErr THEN h.err
        ELSE IF ~h.val.b
        THEN Errorf("key '%s' not found at path %s, valid keys: %+v",
                    <<key, m.path, Join(order, ", ")>>)
        ELSE NilErr

\* mutant: the item found is returned beside the type-mismatch error
MapStringReturnsItemWithError(m, key, order) ==
    IF m.err # NilErr THEN Ret(StrV(""), m.err)
    ELSE LET err == MapvalidateKey(m, key, order)
             x == MapIndex(m.m, key)
         IN  IF err # NilErr THEN Ret(StrV(""), err)
             ELSE IF x.t # StrT
             THEN Ret(x, Errorf("item with key '%s' at path %s was a %T, not a string",
                                <<key, m.path, x.t>>))
             ELSE Ret(x, NilErr)

\* mutant: the item is coerced before the key is validated
MapStringCoercesFirst(m, key, order) ==
    IF m.err # NilErr THEN Ret(StrV(""), m.err)
    ELSE LET err == MapvalidateKey(m, key, order)
             x == MapIndex(m.m, key)
         IN  IF x.t # StrT
             THEN Ret(StrV(""), Errorf("item with key '%s' at path %s was a %T, not a string",
                                       <<key, m.path, x.t>>))
             ELSE IF err # NilErr THEN Ret(StrV(""), err)
             ELSE Ret(x, NilErr)

MapString(m, key, order) ==
    IF m.err # NilErr THEN Ret(StrV(""), m.err)
    ELSE LET err == MapvalidateKey(m, key, order)
             x == MapIndex(m.m, key)
         IN  IF err # NilErr THEN Ret(StrV(""), err)
             ELSE IF x.t # StrT
             THEN Ret(StrV(""), Errorf("item with key '%s' at path %s was a %T, not a string",
                                       <<key, m.path, x.t>>))
             ELSE Ret(x, NilErr)

\* mutant: Float(key) returns the zero value instead of the number found
MapFloatZero(m, key, order) ==
    IF m.err # NilErr THEN Ret(NumV(0), m.err)
    ELSE LET err == MapvalidateKey(m, key, order)
             x == MapIndex(m.m, key)
         IN  IF err # NilErr THEN Ret(NumV(0), err)
             ELSE IF x.t # NumT
             THEN Ret(NumV(0), Errorf("item with key %s was a %T, not a float", <<key, x.t>>))
             ELSE Ret(NumV(0), NilErr)

MapFloat(m, key, order) ==
    IF m.err # NilErr THEN Ret(NumV(0), m.err)
    ELSE LET err == MapvalidateKey(m, key, order)
             x == MapIndex(m.m, key)
         IN  IF err # NilErr THEN Ret(NumV(0), err)
             ELSE IF x.t # NumT
             THEN Ret(NumV(0), Errorf("item with key %s was a %T, not a float", <<key, x.t>>))
             ELSE Ret(x, NilErr)

MapBool(m, key, order) ==
    IF m.err # NilErr THEN Ret(BoolV(FALSE), m.err)
    ELSE LET err == MapvalidateKey(m, key, order)
             x == MapIndex(m.m, key)
         IN  IF err # NilErr THEN Ret(BoolV(FALSE), err)
             ELSE IF x.t # BoolT
             THEN Ret(BoolV(FALSE), Errorf("item with key %s was a %T, not a bool", <<key, x.t>>))
             ELSE Ret(x, NilErr)

\* Int of the struct Map, declared in interface.go: Float, then int(f)
MapInt(m, key, order) ==
    LET f == MapFloat(m, key, order)
    IN  IF f.err # NilErr THEN Ret(IntV(0), f.err)
        ELSE Ret(IntV(IntOfFloat(f.val.n)), NilErr)

\* mutant: the failing Map(key) sets the error in a copy of the receiver
MapMapKeepsValue(m, key, order) ==
    IF m.err # NilErr THEN m
    ELSE LET err == MapvalidateKey(m, key, order)
             currPath == appendKey(m.path, key)
             x == MapIndex(m.m, key)
         IN  IF err # NilErr THEN MapAcc(m.m, m.path, err)
             ELSE IF x.t # ObjT
             THEN MapAcc(m.m, m.path,
                         Errorf("item at path %s was a %T, not a map", <<currPath, x.t>>))
             ELSE MapAcc(x, currPath, NilErr)

MapMap(m, key, order) ==
    IF m.err # NilErr THEN m
    ELSE LET err == MapvalidateKey(m, key, order)
             currPath == appendKey(m.path, key)
             x == MapIndex(m.m, key)
         IN  IF err # NilErr THEN MapAcc(NilV, m.path, err)
             ELSE IF x.t # ObjT
             THEN MapAcc(NilV, m.path,
                         Errorf("item at path %s was a %T, not a map", <<currPath, x.t>>))
             ELSE MapAcc(x, currPath, NilErr)

\* mutant: Array(key) on an absent key returns an array accessor without the error
MapArrayDropsKeyError(m, key, order) ==
    IF m.err # NilErr THEN ArrayAcc(NilV, m.path, m.err)
    ELSE LET err == MapvalidateKey(m, key, order)
             currPath == appendKey(m.path, key)
             x == MapIndex(m.m, key)
         IN  IF err # NilErr THEN ArrayAcc(NilV, m.path, NilErr)
             ELSE IF x.t # ArrT
             THEN ArrayAcc(NilV, m.path,
                           Errorf("item at path %s was a %T, not an array", <<currPath, x.t>>))
             ELSE ArrayAcc(x, currPath, NilErr)

MapArray(m, key, order) ==
    IF m.err # NilErr THEN ArrayAcc(NilV, m.path, m.err)
    ELSE LET err == MapvalidateKey(m, key, order)
             currPath == appendKey(m.path, key)
             x == MapIndex(m.m, key)
         IN  IF err # NilErr THEN ArrayAcc(NilV, m.path, err)
             ELSE IF x.t # ArrT
             THEN ArrayAcc(NilV, m.path,
                           Errorf("item at path %s was a %T, not an array", <<currPath, x.t>>))
             ELSE ArrayAcc(x, currPath, NilErr)

MapBytes(m) ==
    IF m.err # NilErr THEN Ret(NilV, m.err)
    ELSE Ret(MarshalStruct, NilErr)

MapInner(m) ==
    IF m.err # NilErr THEN Ret(NilV, m.err)
    ELSE Ret(m.m, NilErr)

(***************************************************************************)
(* The Must* methods of Map (map.go), op one of MustHas, MustString,       *)
(* MustFloat, MustBool, MustBytes, MustInner: each panics with m.err when  *)
(* it is set; MustString, MustFloat and MustBool then call the method      *)
(* without Must and panic with its error.                                  *)
(***************************************************************************)
MapMust(m, op, key, order) ==
    IF m.err # NilErr THEN Panic(m.err)
    ELSE IF op = "MustHas" THEN Return(BoolV(HasKey(m.m, key)))
    ELSE IF op = "MustBytes" THEN Return(Marshal(m.m))
    ELSE IF op = "MustInner" THEN Return(m.m)
    ELSE LET r == CASE op = "MustString" -> MapString(m, key, order)
                    [] op = "MustFloat" -> MapFloat(m, key, order)
                    [] op = "MustBool" -> MapBool(m, key, order)
         IN  IF r.err # NilErr THEN Panic(r.err) ELSE Return(r.val)

\* mutant: the message gives len(a.a) as the upper end of the range
ArrayvalidateIndexRangeOffByOne(a, idx) ==
    IF idx < 0 \/ idx >= LenOf(a.a)
    THEN Errorf("invalid index: %d; it should be between 0 and %d",
                <<ToString(idx), ToString(LenOf(a.a))>>)
    ELSE NilErr

ArrayvalidateIndex(a, idx) ==
    IF idx < 0 \/ idx >= LenOf(a.a)
    THEN Errorf("invalid index: %d; it should be between 0 and %d",
                <<ToString(idx), ToString(LenOf(a.a) - 1)>>)
    ELSE NilErr

\* mutant: Map(idx) without the check of a.err
ArrayMapNoErrCheck(a, idx) ==
    LET err == ArrayvalidateIndex(a, idx)
        currPath == appendIndex(a.path, idx)
    IN  IF err # NilErr THEN MapAcc(NilV, a.path, err)
        ELSE IF SliceIndex(a.a, idx).t # ObjT
        THEN MapAcc(NilV, a.path,
                    Errorf("item at path %s was a %T, not a map",
                           <<currPath, SliceIndex(a.a, idx).t>>))
        ELSE MapAcc(SliceIndex(a.a, idx), currPath, NilErr)

ArrayMap(a, idx) ==
    IF a.err # NilErr THEN MapAcc(NilV, a.path, a.err)
    ELSE LET err == ArrayvalidateIndex(a, idx)
             currPath == appendIndex(a.path, idx)
         IN  IF err # NilErr THEN MapAcc(NilV, a.path, err)
             ELSE IF SliceIndex(a.a, idx).t # ObjT
             THEN MapAcc(NilV, a.path,
                         Errorf("item at path %s was a %T, not a map",
                                <<currPath, SliceIndex(a.a, idx).t>>))
             ELSE MapAcc(SliceIndex(a.a, idx), currPath, NilErr)

\* mutant: the failing Array(idx) returns the extended path
ArrayArrayKeepsCurrPath(a, idx) ==
    IF a.err # NilErr THEN a
    ELSE LET err == ArrayvalidateIndex(a, idx)
             currPath == appendIndex(a.path, idx)
         IN  IF err # NilErr THEN ArrayAcc(NilV, currPath, err)
             ELSE IF SliceIndex(a.a, idx).t # ArrT
             THEN ArrayAcc(NilV, currPath,
                           Errorf("item at path %s was a %T, not an array",
                                  <<currPath, SliceIndex(a.a, idx).t>>))
             ELSE ArrayAcc(SliceIndex(a.a, idx), currPath, NilErr)

ArrayArray(a, idx) ==
    IF a.err # NilErr THEN a
    ELSE LET err == ArrayvalidateIndex(a, idx)
             currPath == appendIndex(a.path, idx)
         IN  IF err # NilErr THEN ArrayAcc(NilV, a.path, err)
             ELSE IF SliceIndex(a.a, idx).t # ArrT
             THEN ArrayAcc(NilV, a.path,
                           Errorf("item at path %s was a %T, not an array",
                                  <<currPath, SliceIndex(a.a, idx).t>>))
             ELSE ArrayAcc(SliceIndex(a.a, idx), currPath, NilErr)

ArrayString(a, idx) ==
    IF a.err # NilErr THEN Ret(StrV(""), a.err)
    ELSE LET err == ArrayvalidateIndex(a, idx)
         IN  IF err # NilErr THEN Ret(StrV(""), err)
             ELSE IF SliceIndex(a.a, idx).t # StrT
             THEN Ret(StrV(""), Errorf("item at index %d was a %T, not a string",
                                       <<ToString(idx), SliceIndex(a.a, idx).t>>))
             ELSE Ret(SliceIndex(a.a, idx), NilErr)

\* mutant: Float(idx) without the check of a.err
ArrayFloatNoErrCheck(a, idx) ==
    LET err == ArrayvalidateIndex(a, idx)
    IN  IF err # NilErr THEN Ret(NumV(0), err)
        ELSE IF SliceIndex(a.a, idx).t # NumT
        THEN Ret(NumV(0), Errorf("item at index %d was a %T, not a float",
                                 <<ToString(idx), SliceIndex(a.a, idx).t>>))
        ELSE Ret(SliceIndex(a.a, idx), NilErr)

ArrayFloat(a, idx) ==
    IF a.err # NilErr THEN Ret(NumV(0), a.err)
    ELSE LET err == ArrayvalidateIndex(a, idx)
         IN  IF err # NilErr THEN Ret(NumV(0), err)
             ELSE IF SliceIndex(a.a, idx).t # NumT
             THEN Ret(NumV(0), Errorf("item at index %d was a %T, not a float",
                                      <<ToString(idx), SliceIndex(a.a, idx).t>>))
             ELSE Ret(SliceIndex(a.a, idx), NilErr)

ArrayBool(a, idx) ==
    IF a.err # NilErr THEN Ret(BoolV(FALSE), a.err)
    ELSE LET err == ArrayvalidateIndex(a, idx)
         IN  IF err # NilErr THEN Ret(BoolV(FALSE), err)
             ELSE IF SliceIndex(a.a, idx).t # BoolT
             THEN Ret(BoolV(FALSE), Errorf("item at index %d was a %T, not a bool",
                                           <<ToString(idx), SliceIndex(a.a, idx).t>>))
             ELSE Ret(SliceIndex(a.a, idx), NilErr)

\* Int of the struct Array, declared in interface.go: Float, then int(f)
ArrayInt(a, idx) ==
    LET f == ArrayFloat(a, idx)
    IN  IF f.err # NilErr THEN Ret(IntV(0), f.err)
        ELSE Ret(IntV(IntOfFloat(f.val.n)), NilErr)

\* Inner of the struct Array, declared in interface.go
ArrayInner(a) ==
    IF a.err # NilErr THEN Ret(NilV, a.err)
    ELSE Ret(a.a, NilErr)

ArrayBytes(a) ==
    IF a.err # NilErr THEN Ret(NilV, a.err)
    ELSE Ret(MarshalStruct, NilErr)

\* mutant: Len treats an empty array as an error
ArrayLenFailsOnEmpty(a) ==
    IF a.err # NilErr THEN Ret(IntV(0), a.err)
    ELSE IF LenOf(a.a) = 0
    THEN Ret(IntV(0), Errorf("invalid index: %d; it should be between 0 and %d", <<"0", "-1">>))
    ELSE Ret(IntV(LenOf(a.a)), NilErr)

ArrayLen(a) ==
    IF a.err # NilErr THEN Ret(IntV(0), a.err)
    ELSE Ret(IntV(LenOf(a.a)), NilErr)

ArrayErr(a) == Ret(NilV, a.err)

\* the Must* methods of Array, op one of MustLen, MustString, MustFloat,
\* MustBool, MustBytes, MustInner
ArrayMust(a, op, idx) ==
    IF a.err # NilErr THEN Panic(a.err)
    ELSE IF op = "MustLen" THEN Return(IntV(LenOf(a.a)))
    ELSE IF op = "MustBytes" THEN Return(Marshal(a.a))
    ELSE IF op = "MustInner" THEN Return(a.a)
    ELSE LET r == CASE op = "MustString" -> ArrayString(a, idx)
                    [] op = "MustFloat" -> ArrayFloat(a, idx)
                    [] op = "MustBool" -> ArrayBool(a, idx)
         IN  IF r.err # NilErr THEN Panic(r.err) ELSE Return(r.val)


(***************************************************************************)
(* The interface implementation (json.go): an accessor in error is a       *)
(* value of a separate type, errorMap{err} or errorArray{err}.             *)
(***************************************************************************)
valueMap(m) == [typ |-> "valueMap", m |-> m]
errorMap(err) == [typ |-> "errorMap", err |-> err]
valueArray(a) == [typ |-> "valueArray", a |-> a]
errorArray(err) == [typ |-> "errorArray", err |-> err]

jsonMapFromBytes(jsonBytes) ==
    LET u == Unmarshal(jsonBytes, ObjT)
    IN  IF u.err # NilErr THEN errorMap(u.err) ELSE valueMap(u.v)

jsonMapFromReader(r) ==
    LET u == Unmarshal(r, ObjT)
    IN  IF u.err # NilErr THEN errorMap(u.err) ELSE valueMap(u.v)

jsonArrayFromBytes(jsonBytes) ==
    LET u == Unmarshal(jsonBytes, ArrT)
    IN  IF u.err # NilErr THEN errorArray(u.err) ELSE valueArray(u.v)

jsonArrayFromReader(r) ==
    LET u == Unmarshal(r, ArrT)
    IN  IF u.err # NilErr THEN errorArray(u.err) ELSE valueArray(u.v)

jsonNewMap(m) == valueMap(m)
jsonNewArray(a) == valueArray(a)

valueArrayvalidateIndex(va, idx) ==
    IF idx < 0 \/ idx >= LenOf(va.a)
    THEN Errorf("invalid index: %d; it should be between 0 and %d",
                <<ToString(idx), ToString(LenOf(va.a) - 1)>>)
    ELSE NilErr

valueArrayMap(va, idx) ==
    LET err == valueArrayvalidateIndex(va, idx)
    IN  IF err # NilErr THEN errorMap(err)
        ELSE IF SliceIndex(va.a, idx).t # ObjT
        THEN errorMap(Errorf("item at index %d was a %T, not a map",
                             <<ToString(idx), SliceIndex(va.a, idx).t>>))
        ELSE valueMap(SliceIndex(va.a, idx))

valueArrayArray(va, idx) ==
    LET err == valueArrayvalidateIndex(va, idx)
    IN  IF err # NilErr THEN errorArray(err)
        ELSE IF SliceIndex(va.a, idx).t # ArrT
        THEN errorArray(Errorf("item at index %d was a %T, not an array",
                               <<ToString(idx), SliceIndex(va.a, idx).t>>))
        ELSE valueArray(SliceIndex(va.a, idx))

valueArrayString(va, idx) ==
    LET err == valueArrayvalidateIndex(va, idx)
    IN  IF err # NilErr THEN Ret(StrV(""), err)
        ELSE IF SliceIndex(va.a, idx).t # StrT
        THEN Ret(StrV(""), Errorf("item at index %d was a %T, not a string",
                                  <<ToString(idx), SliceIndex(va.a, idx).t>>))
        ELSE Ret(SliceIndex(va.a, idx), NilErr)

valueArrayFloat(va, idx) ==
    LET err == valueArrayvalidateIndex(va, idx)
    IN  IF err # NilErr THEN Ret(NumV(0), err)
        ELSE IF SliceIndex(va.a, idx).t # NumT
        THEN Ret(NumV(0), Errorf("item at index %d was a %T, not a float",
                                 <<ToString(idx), SliceIndex(va.a, idx).t>>))
        ELSE Ret(SliceIndex(va.a, idx), NilErr)

valueArrayInt(va, idx) ==
    LET f == valueArrayFloat(va, idx)
    IN  IF f.err # NilErr THEN Ret(IntV(0), f.err)
        ELSE Ret(IntV(IntOfFloat(f.val.n)), NilErr)

valueArrayBool(va, idx) ==
    LET err == valueArrayvalidateIndex(va, idx)
    IN  IF err # NilErr THEN Ret(BoolV(FALSE), err)
        ELSE IF SliceIndex(va.a, idx).t # BoolT
        THEN Ret(BoolV(FALSE), Errorf("item at index %d was a %T, not a bool",
                                      <<ToString(idx), SliceIndex(va.a, idx).t>>))
        ELSE Ret(SliceIndex(va.a, idx), NilErr)

valueArrayBytes(va) == Ret(MarshalStruct, NilErr)
valueArrayLen(va) == Ret(IntV(LenOf(va.a)), NilErr)
valueArrayInner(va) == Ret(va.a, NilErr)
valueArrayErr(va) == Ret(NilV, NilErr)

\* the Must* methods of valueArray, op one of MustLen, MustString, MustFloat,
\* MustInt, MustBool, MustBytes, MustInner
valueArrayMust(va, op, idx) ==
    IF op = "MustLen" THEN Return(IntV(LenOf(va.a)))
    ELSE IF op = "MustBytes" THEN Return(Marshal(va.a))
    ELSE IF op = "MustInner" THEN Return(va.a)
    ELSE LET r == CASE op = "MustString" -> valueArrayString(va, idx)
                    [] op = "MustFloat" -> valueArrayFloat(va, idx)
                    [] op = "MustInt" -> valueArrayInt(va, idx)
                    [] op = "MustBool" -> valueArrayBool(va, idx)
         IN  IF r.err # NilErr THEN Panic(r.err) ELSE Return(r.val)

valueMapMustHas(vm, key) == HasKey(vm.m, key)

valueMapvalidateKey(vm, key, order) ==
    IF ~valueMapMustHas(vm, key)
    THEN Errorf("key not found: %s, valid keys: %+v", <<key, Join(order, ", ")>>)
    ELSE NilErr

valueMapString(vm, key, order) ==
    LET err == valueMapvalidateKey(vm, key, order)
        x == MapIndex(vm.m, key)
    IN  IF err # NilErr THEN Ret(StrV(""), err)
        ELSE IF x.t # StrT
        THEN Ret(StrV(""), Errorf("item with key %s was a %T, not a string", <<key, x.t>>))
        ELSE Ret(x, NilErr)

valueMapFloat(vm, key, order) ==
    LET err == valueMapvalidateKey(vm, key, order)
        x == MapIndex(vm.m, key)
    IN  IF err # NilErr THEN Ret(NumV(0), err)
        ELSE IF x.t # NumT
        THEN Ret(NumV(0), Errorf("item with key %s was a %T, not a float", <<key, x.t>>))
        ELSE Ret(x, NilErr)

\* mutant: Int drops the error of Float
valueMapIntDropsError(vm, key, order) ==
    LET f == valueMapFloat(vm, key, order)
    IN  Ret(IntV(IntOfFloat(f.val.n)), NilErr)

valueMapInt(vm, key, order) ==
    LET f == valueMapFloat(vm, key, order)
    IN  IF f.err # NilErr THEN Ret(IntV(0), f.err)
        ELSE Ret(IntV(IntOfFloat(f.val.n)), NilErr)

valueMapBool(vm, key, order) ==
    LET err == valueMapvalidateKey(vm, key, order)
        x == MapIndex(vm.m, key)
    IN  IF err # NilErr THEN Ret(BoolV(FALSE), err)
        ELSE IF x.t # BoolT
        THEN Ret(BoolV(FALSE), Errorf("item with key %s was a %T, not a bool", <<key, x.t>>))
        ELSE Ret(x, NilErr)

valueMapMap(vm, key, order) ==
    LET err == valueMapvalidateKey(vm, key, order)
        x == MapIndex(vm.m, key)
    IN  IF err # NilErr THEN errorMap(err)
        ELSE IF x.t # ObjT
        THEN errorMap(Errorf("item with key %s was a %T, not a map", <<key, x.t>>))
        ELSE valueMap(x)

valueMapArray(vm, key, order) ==
    LET err == valueMapvalidateKey(vm, key, order)
        x == MapIndex(vm.m, key)
    IN  IF err # NilErr THEN errorArray(err)
        ELSE IF x.t # ArrT
        THEN errorArray(Errorf("item with key %s was a %T, not an array", <<key, x.t>>))
        ELSE valueArray(x)

valueMapBytes(vm) == Ret(MarshalStruct, NilErr)
\* mutant: Has validates the key as the other methods do
valueMapHasValidatesKey(vm, key) ==
    IF HasKey(vm.m, key) THEN Ret(BoolV(TRUE), NilErr)
    ELSE Ret(BoolV(FALSE), Errorf("key not found: %s, valid keys: %+v", <<key, "">>))

valueMapHas(vm, key) == Ret(BoolV(HasKey(vm.m, key)), NilErr)
valueMapInner(vm) == Ret(vm.m, NilErr)
valueMapErr(vm) == Ret(NilV, NilErr)

\* the Must* methods of valueMap, op one of MustHas, MustString, MustFloat,
\* MustInt, MustBool, MustBytes, MustInner
valueMapMust(vm, op, key, order) ==
    IF op = "MustHas" THEN Return(BoolV(valueMapMustHas(vm, key)))
    ELSE IF op = "MustBytes" THEN Return(Marshal(vm.m))
    ELSE IF op = "MustInner" THEN Return(vm.m)
    ELSE LET r == CASE op = "MustString" -> valueMapString(vm, key, order)
                    [] op = "MustFloat" -> valueMapFloat(vm, key, order)
                    [] op = "MustInt" -> valueMapInt(vm, key, order)
                    [] op = "MustBool" -> valueMapBool(vm, key, order)
         IN  IF r.err # NilErr THEN Panic(r.err) ELSE Return(r.val)

\* the methods of errorMap: each returns em.err beside the zero value, or an
\* accessor that holds em.err, or panics with em.err
errorMapMethod(em, op) ==
    CASE op = "Map" -> em
      [] op = "Array" -> errorArray(em.err)
      [] op = "String" -> Ret(StrV(""), em.err)
      [] op = "Float" -> Ret(NumV(0), em.err)
      [] op = "Int" -> Ret(IntV(0), em.err)
      [] op \in {"Bool", "Has"} -> Ret(BoolV(FALSE), em.err)
      [] op \in {"Bytes", "Inner", "Err"} -> Ret(NilV, em.err)
      [] OTHER -> Panic(em.err)

\* the methods of errorArray
errorArrayMethod(ea, op) ==
    CASE op = "Map" -> errorMap(ea.err)
      [] op = "Array" -> ea
      [] op = "String" -> Ret(StrV(""), ea.err)
      [] op = "Float" -> Ret(NumV(0), ea.err)
      [] op \in {"Int", "Len"} -> Ret(IntV(0), ea.err)
      [] op = "Bool" -> Ret(BoolV(FALSE), ea.err)
      [] op \in {"Bytes", "Inner", "Err"} -> Ret(NilV, ea.err)
      [] OTHER -> Panic(ea.err)

\* Err() of any accessor
ErrOf(a) ==
    IF a.typ = "Map" THEN MapErr(a).err
    ELSE IF a.typ = "Array" THEN ArrayErr(a).err
    ELSE IF a.typ = "valueMap" THEN valueMapErr(a).err
    ELSE IF a.typ = "errorMap" THEN errorMapMethod(a, "Err").err
    ELSE IF a.typ = "valueArray" THEN valueArrayErr(a).err
    ELSE errorArrayMethod(a, "Err").err

(***************************************************************************)
(* Method dispatch: the method named op of each accessor type.  A          *)
(* navigation method gives an accessor, a terminal method a Ret, a Must*   *)
(* method a Return or a Panic.                                             *)
(***************************************************************************)
MapMethod(m, op, key, order) ==
    CASE op = "Map" -> MapMap(m, key, order)
      [] op = "Array" -> MapArray(m, key, order)
      [] op = "String" -> MapString(m, key, order)
      [] op = "Float" -> MapFloat(m, key, order)
      [] op = "Int" -> MapInt(m, key, order)
      [] op = "Bool" -> MapBool(m, key, order)
      [] op = "Has" -> MapHas(m, key)
      [] op = "Bytes" -> MapBytes(m)
      [] op = "Inner" -> MapInner(m)
      [] op = "Err" -> MapErr(m)
      [] OTHER -> MapMust(m, op, key, order)

ArrayMethod(a, op, idx) ==
    CASE op = "Map" -> ArrayMap(a, idx)
      [] op = "Array" -> ArrayArray(a, idx)
      [] op = "String" -> ArrayString(a, idx)
      [] op = "Float" -> ArrayFloat(a, idx)
      [] op = "Int" -> ArrayInt(a, idx)
      [] op = "Bool" -> ArrayBool(a, idx)
      [] op = "Len" -> ArrayLen(a)
      [] op = "Bytes" -> ArrayBytes(a)
      [] op = "Inner" -> ArrayInner(a)
      [] op = "Err" -> ArrayErr(a)
      [] OTHER -> ArrayMust(a, op, idx)

valueMapMethod(vm, op, key, order) ==
    CASE op = "Map" -> valueMapMap(vm, key, order)
      [] op = "Array" -> valueMapArray(vm, key, order)
      [] op = "String" -> valueMapString(vm, key, order)
      [] op = "Float" -> valueMapFloat(vm, key, order)
      [] op = "Int" -> valueMapInt(vm, key, order)
      [] op = "Bool" -> valueMapBool(vm, key, order)
      [] op = "Has" -> valueMapHas(vm, key)
      [] op = "Bytes" -> valueMapBytes(vm)
      [] op = "Inner" -> valueMapInner(vm)
      [] op = "Err" -> valueMapErr(vm)
      [] OTHER -> valueMapMust(vm, op, key, order)

valueArrayMethod(va, op, idx) ==
    CASE op = "Map" -> valueArrayMap(va, idx)
      [] op = "Array" -> valueArrayArray(va, idx)
      [] op = "String" -> valueArrayString(va, idx)
      [] op = "Float" -> valueArrayFloat(va, idx)
      [] op = "Int" -> valueArrayInt(va, idx)
      [] op = "Bool" -> valueArrayBool(va, idx)
      [] op = "Len" -> valueArrayLen(va)
      [] op = "Bytes" -> valueArrayBytes(va)
      [] op = "Inner" -> valueArrayInner(va)
      [] op = "Err" -> valueArrayErr(va)
      [] OTHER -> valueArrayMust(va, op, idx)

\* a.op(key) or a.op(idx): the method of the accessor's dynamic type runs
Invoke(a, op, key, idx, order) ==
    CASE a.typ = "Map" -> MapMethod(a, op, key, order)
      [] a.typ = "Array" -> ArrayMethod(a, op, idx)
      [] a.typ = "valueMap" -> valueMapMethod(a, op, key, order)
      [] a.typ = "errorMap" -> errorMapMethod(a, op)
      [] a.typ = "valueArray" -> valueArrayMethod(a, op, idx)
      [] a.typ = "errorArray" -> errorArrayMethod(a, op)

(***************************************************************************)
(* The call chain as a state machine.                                      *)
(***************************************************************************)
Init ==
    /\ phase = "start"
    /\ input = NilV
    /\ root = NoAcc
    /\ acc = NoAcc
    /\ recv = NoAcc
    /\ call = NoCall
    /\ chain = <<>>
    /\ ret = NoRet
    /\ pnc = NilErr
    /\ again = NoOutcome
    /\ from = NoFrom
    /\ readers = NoReaders

\* the history stops growing at the first call that left an error
Record(h, step) ==
    IF ErrOf(acc) # NilErr \/ (Len(h) > 0 /\ h[Len(h)].err # NilErr) THEN h
    ELSE Append(h, step)

\* a constructor returns the root accessor
Construct(pkg, op, arg, result) ==
    /\ phase = "start"
    /\ phase' = "chain"
    /\ input' = arg
    /\ root' = result
    /\ acc' = result
    /\ recv' = NoAcc
    /\ call' = [on |-> pkg, op |-> op, key |-> "", idx |-> 0]
    /\ chain' = <<>>
    /\ ret' = NoRet
    /\ pnc' = NilErr
    /\ again' = NoOutcome
    /\ from' = NoFrom
    /\ UNCHANGED readers

\* a navigation call returns a new accessor; the receiver is passed by value
Navigate(op, key, idx, result) ==
    /\ phase = "chain"
    /\ phase' = "chain"
    /\ acc' = result
    /\ recv' = acc
    /\ call' = [on |-> acc.typ, op |-> op, key |-> key, idx |-> idx]
    /\ chain' = Record(chain, [on |-> acc.typ, op |-> op, key |-> key, idx |-> idx,
                                err |-> ErrOf(result)])
    /\ ret' = NoRet
    /\ pnc' = NilErr
    /\ again' = NoOutcome
    /\ from' = NoFrom
    /\ UNCHANGED <<input, root, readers>>

\* a terminal call returns a value and an error; the receiver is passed by value
\* mutant: a pointer receiver, in which a failing terminal call stores its error
TerminalStoresError(op, key, idx, result) ==
    /\ phase = "chain"
    /\ phase' = "done"
    /\ acc' = IF result.err # NilErr /\ acc.typ \in {"Map", "Array"}
              THEN [acc EXCEPT !.err = result.err] ELSE acc
    /\ recv' = acc'
    /\ call' = [on |-> acc.typ, op |-> op, key |-> key, idx |-> idx]
    /\ chain' = Record(chain, [on |-> acc.typ, op |-> op, key |-> key, idx |-> idx,
                                err |-> result.err])
    /\ ret' = result
    /\ pnc' = NilErr
    /\ again' = NoOutcome
    /\ from' = NoFrom
    /\ UNCHANGED <<input, root, readers>>

\* mutant: a failing terminal call leaves its error in the accessor of the chain
TerminalFreezesError(op, key, idx, result) ==
    /\ phase = "chain"
    /\ phase' = "done"
    /\ acc' = IF result.err # NilErr /\ acc.typ \in {"Map", "Array"}
              THEN [acc EXCEPT !.err = result.err] ELSE acc
    /\ recv' = acc
    /\ call' = [on |-> acc.typ, op |-> op, key |-> key, idx |-> idx]
    /\ chain' = Record(chain, [on |-> acc.typ, op |-> op, key |-> key, idx |-> idx,
                                err |-> result.err])
    /\ ret' = result
    /\ pnc' = NilErr
    /\ again' = NoOutcome
    /\ from' = NoFrom
    /\ UNCHANGED <<input, root, readers>>

Terminal(op, key, idx, result) ==
    /\ phase = "chain"
    /\ phase' = "done"
    /\ acc' = acc
    /\ recv' = acc
    /\ call' = [on |-> acc.typ, op |-> op, key |-> key, idx |-> idx]
    /\ chain' = Record(chain, [on |-> acc.typ, op |-> op, key |-> key, idx |-> idx,
                                err |-> result.err])
    /\ ret' = result
    /\ pnc' = NilErr
    /\ again' = NoOutcome
    /\ from' = NoFrom
    /\ UNCHANGED <<input, root, readers>>

\* a Must* call returns a value or panics; the receiver is passed by value
Must(op, key, idx, result) ==
    /\ phase = "chain"
    /\ phase' = IF result.panic = NilErr THEN "done" ELSE "panicked"
    /\ acc' = acc
    /\ recv' = acc
    /\ call' = [on |-> acc.typ, op |-> op, key |-> key, idx |-> idx]
    /\ chain' = Record(chain, [on |-> acc.typ, op |-> op, key |-> key, idx |-> idx,
                                err |-> result.panic])
    /\ ret' = IF result.panic = NilErr THEN Ret(result.val, NilErr) ELSE NoRet
    /\ pnc' = result.panic
    /\ again' = NoOutcome
    /\ from' = NoFrom
    /\ UNCHANGED <<input, root, readers>>

CallMapFromBytes ==
    /\ phase = "start"
    /\ \E b \in Bytes : Construct("luna", "MapFromBytes", b, MapFromBytes(b))
CallMapFromReader ==
    /\ phase = "start"
    /\ \E b \in Bytes : Construct("luna", "MapFromReader", b, MapFromReader(b))
CallNewMap ==
    /\ phase = "start"
    /\ \E m \in NativeMaps : Construct("luna", "NewMap", m, NewMap(m))
CallArrayFromBytes ==
    /\ phase = "start"
    /\ \E b \in Bytes : Construct("luna", "ArrayFromBytes", b, ArrayFromBytes(b))
CallArrayFromReader ==
    /\ phase = "start"
    /\ \E b \in Bytes : Construct("luna", "ArrayFromReader", b, ArrayFromReader(b))
CallNewArray ==
    /\ phase = "start"
    /\ \E a \in NativeArrays : Construct("luna", "NewArray", a, NewArray(a))

MapTypes == {"Map", "valueMap", "errorMap"}
ArrayTypes == {"Array", "valueArray", "errorArray"}
StructTypes == {"Map", "Array"}
MustOps == {"MustHas", "MustString", "MustFloat", "MustInt", "MustBool",
            "MustLen", "MustBytes", "MustInner"}

\* a value accessor holds the map or slice the range loop and len read
Held(a) ==
    IF a.typ \in {"Map", "valueMap"} THEN a.m
    ELSE IF a.typ \in {"Array", "valueArray"} THEN a.a
    ELSE NilV

\* the arguments of a call on accessor a: a key for a map, an index for an array
ArgsOf(a) ==
    IF a.typ \in MapTypes THEN {[key |-> k, idx |-> 0] : k \in Keys}
    ELSE {[key |-> "", idx |-> i] : i \in Idxs}


CalljsonMapFromBytes ==
    /\ phase = "start"
    /\ \E b \in Bytes : Construct("json", "MapFromBytes", b, jsonMapFromBytes(b))
CalljsonMapFromReader ==
    /\ phase = "start"
    /\ \E b \in Bytes : Construct("json", "MapFromReader", b, jsonMapFromReader(b))
CalljsonNewMap ==
    /\ phase = "start"
    /\ \E m \in NativeMaps : Construct("json", "NewMap", m, jsonNewMap(m))
CalljsonArrayFromBytes ==
    /\ phase = "start"
    /\ \E b \in Bytes : Construct("json", "ArrayFromBytes", b, jsonArrayFromBytes(b))
CalljsonArrayFromReader ==
    /\ phase = "start"
    /\ \E b \in Bytes : Construct("json", "ArrayFromReader", b, jsonArrayFromReader(b))
CalljsonNewArray ==
    /\ phase = "start"
    /\ \E a \in NativeArrays : Construct("json", "NewArray", a, jsonNewArray(a))

(***************************************************************************)
(* The calls on the held accessor, one action for each method name.        *)
(***************************************************************************)
CallMap ==
    /\ phase = "chain"
    /\ \E x \in ArgsOf(acc), order \in RangeOrders(Held(acc)) :
          Navigate("Map", x.key, x.idx, Invoke(acc, "Map", x.key, x.idx, order))

CallArray ==
    /\ phase = "chain"
    /\ \E x \in ArgsOf(acc), order \in RangeOrders(Held(acc)) :
          Navigate("Array", x.key, x.idx, Invoke(acc, "Array", x.key, x.idx, order))

CallString ==
    /\ phase = "chain"
    /\ \E x \in ArgsOf(acc), order \in RangeOrders(Held(acc)) :
          Terminal("String", x.key, x.idx, Invoke(acc, "String", x.key, x.idx, order))

CallFloat ==
    /\ phase = "chain"
    /\ \E x \in ArgsOf(acc), order \in RangeOrders(Held(acc)) :
          Terminal("Float", x.key, x.idx, Invoke(acc, "Float", x.key, x.idx, order))

CallInt ==
    /\ phase = "chain"
    /\ \E x \in ArgsOf(acc), order \in RangeOrders(Held(acc)) :
          Terminal("Int", x.key, x.idx, Invoke(acc, "Int", x.key, x.idx, order))

CallBool ==
    /\ phase = "chain"
    /\ \E x \in ArgsOf(acc), order \in RangeOrders(Held(acc)) :
          Terminal("Bool", x.key, x.idx, Invoke(acc, "Bool", x.key, x.idx, order))

CallHas ==
    /\ phase = "chain"
    /\ acc.typ \in MapTypes
    /\ \E x \in ArgsOf(acc), order \in RangeOrders(Held(acc)) :
          Terminal("Has", x.key, x.idx, Invoke(acc, "Has", x.key, x.idx, order))

CallLen ==
    /\ phase = "chain"
    /\ acc.typ \in ArrayTypes
    /\ Terminal("Len", "", 0, Invoke(acc, "Len", "", 0, <<>>))

CallBytes ==
    /\ phase = "chain"
    /\ Terminal("Bytes", "", 0, Invoke(acc, "Bytes", "", 0, <<>>))

CallInner ==
    /\ phase = "chain"
    /\ Terminal("Inner", "", 0, Invoke(acc, "Inner", "", 0, <<>>))

CallErr ==
    /\ phase = "chain"
    /\ Terminal("Err", "", 0, Invoke(acc, "Err", "", 0, <<>>))

\* the struct Map and Array have no MustInt
CallMustString ==
    /\ phase = "chain"
    /\ \E x \in ArgsOf(acc), order \in RangeOrders(Held(acc)) :
          Must("MustString", x.key, x.idx, Invoke(acc, "MustString", x.key, x.idx, order))

CallMustFloat ==
    /\ phase = "chain"
    /\ \E x \in ArgsOf(acc), order \in RangeOrders(Held(acc)) :
          Must("MustFloat", x.key, x.idx, Invoke(acc, "MustFloat", x.key, x.idx, order))

CallMustBool ==
    /\ phase = "chain"
    /\ \E x \in ArgsOf(acc), order \in RangeOrders(Held(acc)) :
          Must("MustBool", x.key, x.idx, Invoke(acc, "MustBool", x.key, x.idx, order))

CallMustInt ==
    /\ phase = "chain"
    /\ acc.typ \notin StructTypes
    /\ \E x \in ArgsOf(acc), order \in RangeOrders(Held(acc)) :
          Must("MustInt", x.key, x.idx, Invoke(acc, "MustInt", x.key, x.idx, order))

CallMustHas ==
    /\ phase = "chain"
    /\ acc.typ \in MapTypes
    /\ \E x \in ArgsOf(acc), order \in RangeOrders(Held(acc)) :
          Must("MustHas", x.key, x.idx, Invoke(acc, "MustHas", x.key, x.idx, order))

CallMustLen ==
    /\ phase = "chain"
    /\ acc.typ \in ArrayTypes
    /\ Must("MustLen", "", 0, Invoke(acc, "MustLen", "", 0, <<>>))

CallMustBytes ==
    /\ phase = "chain"
    /\ Must("MustBytes", "", 0, Invoke(acc, "MustBytes", "", 0, <<>>))

CallMustInner ==
    /\ phase = "chain"
    /\ Must("MustInner", "", 0, Invoke(acc, "MustInner", "", 0, <<>>))

\* the last call is made a second time on the same receiver with the same
\* argument; a range loop over a map visits the keys in an order of its own
CallAgain ==
    /\ phase \in {"chain", "done", "panicked"}
    /\ recv # NoAcc
    /\ again = NoOutcome
    /\ \E order \in RangeOrders(Held(recv)) :
          LET res == Invoke(recv, call.op, call.key, call.idx, order)
          IN  again' = IF call.op \in {"Map", "Array"} THEN Outcome(res, NoRet, NilErr)
                       ELSE IF call.op \in MustOps
                       THEN Outcome(recv,
                                    IF res.panic = NilErr THEN Ret(res.val, NilErr) ELSE NoRet,
                                    res.panic)
                       ELSE Outcome(recv, res, NilErr)
    /\ UNCHANGED <<phase, input, root, acc, recv, call, chain, ret, pnc, from, readers>>

\* MapFromBytes or ArrayFromBytes decodes the bytes the last Bytes or
\* MustBytes call returned
Redecode ==
    /\ phase = "done"
    /\ call.op \in {"Bytes", "MustBytes"}
    /\ ret.err = NilErr
    /\ LET b == Decode(ret.val)
           result == CASE recv.typ = "Map" -> MapFromBytes(b)
                       [] recv.typ = "Array" -> ArrayFromBytes(b)
                       [] recv.typ = "valueMap" -> jsonMapFromBytes(b)
                       [] recv.typ = "valueArray" -> jsonArrayFromBytes(b)
       IN  /\ input' = b
           /\ root' = result
           /\ acc' = result
    /\ phase' = "redecoded"
    /\ recv' = NoAcc
    /\ call' = [on |-> IF recv.typ \in StructTypes THEN "luna" ELSE "json",
                op |-> IF recv.typ \in MapTypes THEN "MapFromBytes" ELSE "ArrayFromBytes",
                key |-> "", idx |-> 0]
    /\ chain' = <<>>
    /\ again' = NoOutcome
    /\ from' = [acc |-> recv, op |-> call.op]
    /\ UNCHANGED <<ret, pnc, readers>>

Next ==
    \/ CallMapFromBytes \/ CallMapFromReader \/ CallNewMap
    \/ CallArrayFromBytes \/ CallArrayFromReader \/ CallNewArray
    \/ CalljsonMapFromBytes \/ CalljsonMapFromReader \/ CalljsonNewMap
    \/ CalljsonArrayFromBytes \/ CalljsonArrayFromReader \/ CalljsonNewArray
    \/ CallMap \/ CallArray
    \/ CallString \/ CallFloat \/ CallInt \/ CallBool \/ CallHas \/ CallLen
    \/ CallBytes \/ CallInner \/ CallErr
    \/ CallMustString \/ CallMustFloat \/ CallMustInt \/ CallMustBool
    \/ CallMustHas \/ CallMustLen \/ CallMustBytes \/ CallMustInner
    \/ CallAgain
    \/ Redecode

Spec == Init /\ [][Next]_vars


(***************************************************************************)
(* Concurrent readers.  One accessor, root, is built and then shared by    *)
(* the readers (goroutines); each reader makes a chain of at most MaxCalls *)
(* calls that starts on the shared accessor.  A method has a value         *)
(* receiver: the call copies the receiver (the shared accessor for the     *)
(* first call of a chain, the reader's own accessor after it), and the     *)
(* body then works on the copy and returns.  The two steps of a call are   *)
(* interleaved freely with the steps of the other readers.                 *)
(***************************************************************************)
InitReaders ==
    /\ phase = "shared"
    /\ input \in {DocReadme, DocArray, Malformed}
    /\ root \in {MapFromBytes(input), ArrayFromBytes(input),
                 jsonMapFromBytes(input), jsonArrayFromBytes(input)}
    /\ acc = root
    /\ recv = NoAcc
    /\ call = NoCall
    /\ chain = <<>>
    /\ ret = NoRet
    /\ pnc = NilErr
    /\ again = NoOutcome
    /\ from = NoFrom
    /\ readers = NoReaders

\* the methods a reader calls on the accessor a
ReaderOps(a) ==
    {"Map", "Array", "String", "Float", "Err"}
    \cup (IF a.typ \in MapTypes THEN {"Has"} ELSE {"Len"})

\* a reader calls a method: the receiver is copied
ReaderBegin(r) ==
    LET me == readers[r]
        receiver == IF me.steps = <<>> THEN root ELSE me.cur
    IN  /\ phase = "shared"
        /\ me.pc = "idle"
        /\ Len(me.steps) < MaxCalls
        /\ \E op \in ReaderOps(receiver), order \in RangeOrders(Held(receiver)) :
           \E x \in IF op \in {"Err", "Len"} THEN {[key |-> "", idx |-> 0]} ELSE ArgsOf(receiver) :
              readers' = [readers EXCEPT ![r] =
                  [me EXCEPT !.pc = "running",
                             !.rcv = receiver,
                             !.steps = Append(@, [on |-> receiver.typ, op |-> op, key |-> x.key,
                                                  idx |-> x.idx, order |-> order])]]
        /\ UNCHANGED <<phase, input, root, acc, recv, call, chain, ret, pnc, again, from>>

\* mutant: a pointer receiver, in which a failing call on the shared accessor
\* stores its error there
ReaderReturnStoresError(r) ==
    LET me == readers[r]
        s == me.steps[Len(me.steps)]
        res == Invoke(me.rcv, s.op, s.key, s.idx, s.order)
        err == IF s.op \in {"Map", "Array"} THEN ErrOf(res) ELSE res.err
    IN  /\ phase = "shared"
        /\ me.pc = "running"
        /\ readers' = [readers EXCEPT ![r] =
              IF s.op \in {"Map", "Array"}
              THEN [me EXCEPT !.pc = "idle", !.cur = res, !.rcv = NoAcc]
              ELSE [me EXCEPT !.pc = "finished", !.cur = me.rcv, !.rcv = NoAcc, !.out = res]]
        /\ root' = IF Len(me.steps) = 1 /\ root.typ \in {"Map", "Array"} /\ err # NilErr
                   THEN [root EXCEPT !.err = err] ELSE root
        /\ UNCHANGED <<phase, input, acc, recv, call, chain, ret, pnc, again, from>>

\* the method runs on the copy and returns; nothing shared is written
ReaderReturn(r) ==
    LET me == readers[r]
        s == me.steps[Len(me.steps)]
        res == Invoke(me.rcv, s.op, s.key, s.idx, s.order)
    IN  /\ phase = "shared"
        /\ me.pc = "running"
        /\ readers' = [readers EXCEPT ![r] =
              IF s.op \in {"Map", "Array"}
              THEN [me EXCEPT !.pc = "idle", !.cur = res, !.rcv = NoAcc]
              ELSE [me EXCEPT !.pc = "finished", !.cur = me.rcv, !.rcv = NoAcc, !.out = res]]
        /\ UNCHANGED <<phase, input, root, acc, recv, call, chain, ret, pnc, again, from>>

NextReaders == \E r \in Readers : ReaderBegin(r) \/ ReaderReturn(r)

SpecReaders == InitReaders /\ [][NextReaders]_vars

(***************************************************************************)
(* The struct Map of map.go (package json): the representation with an err *)
(* field and no path.  Map{m, err} and Array{a, err} are its struct        *)
(* literals; validateKey asks MustHas, which its callers reach only with a *)
(* nil err.                                                                *)
(***************************************************************************)
pathlessMap(m, err) == [typ |-> "pathlessMap", m |-> m, err |-> err]
pathlessArray(a, err) == [typ |-> "pathlessArray", a |-> a, err |-> err]

pathlessMapMethod(m, op, key, order) ==
    LET validateKey ==
            IF ~HasKey(m.m, key)
            THEN Errorf("key not found: %s, valid keys: %+v", <<key, Join(order, ", ")>>)
            ELSE NilErr
        x == MapIndex(m.m, key)
        mismatch(what) == Errorf("item with key %s was a %T, not " \o what, <<key, x.t>>)
    IN  CASE op = "Err" -> Ret(NilV, m.err)
          [] op = "Has" ->
                IF m.err # NilErr THEN Ret(BoolV(FALSE), m.err)
                ELSE Ret(BoolV(HasKey(m.m, key)), NilErr)
          [] op = "String" ->
                IF m.err # NilErr THEN Ret(StrV(""), m.err)
                ELSE IF validateKey # NilErr THEN Ret(StrV(""), validateKey)
                ELSE IF x.t # StrT THEN Ret(StrV(""), mismatch("a string"))
                ELSE Ret(x, NilErr)
          [] op = "Float" ->
                IF m.err # NilErr THEN Ret(NumV(0), m.err)
                ELSE IF validateKey # NilErr THEN Ret(NumV(0), validateKey)
                ELSE IF x.t # NumT THEN Ret(NumV(0), mismatch("a float"))
                ELSE Ret(x, NilErr)
          [] op = "Bool" ->
                IF m.err # NilErr THEN Ret(BoolV(FALSE), m.err)
                ELSE IF validateKey # NilErr THEN Ret(BoolV(FALSE), validateKey)
                ELSE IF x.t # BoolT THEN Ret(BoolV(FALSE), mismatch("a bool"))
                ELSE Ret(x, NilErr)
          [] op = "Map" ->
                IF m.err # NilErr THEN m
                ELSE IF validateKey # NilErr THEN pathlessMap(NilV, validateKey)
                ELSE IF x.t # ObjT THEN pathlessMap(NilV, mismatch("a map"))
                ELSE pathlessMap(x, NilErr)
          [] op = "Array" ->
                IF m.err # NilErr THEN pathlessArray(NilV, m.err)
                ELSE IF validateKey # NilErr THEN pathlessArray(NilV, validateKey)
                ELSE IF x.t # ArrT THEN pathlessArray(NilV, mismatch("an array"))
                ELSE pathlessArray(x, NilErr)

(***************************************************************************)
(* Vocabulary of the properties.                                           *)
(***************************************************************************)
NavOps == {"Map", "Array"}
LookupOps == {"Map", "Array", "String", "Float", "Int", "Bool"}

Called == call.on \in MapTypes \cup ArrayTypes
Constructed == call.on \in {"luna", "json"}
Errored(a) == ErrOf(a) # NilErr
\* the error the last call produced: in the accessor it returned, or beside the value
Produced == IF phase = "done" THEN ret.err ELSE ErrOf(acc)

KeyNotFoundFmt == "key '%s' not found at path %s, valid keys: %+v"
jsonKeyNotFoundFmt == "key not found: %s, valid keys: %+v"
IndexFmt == "invalid index: %d; it should be between 0 and %d"
DecodeFmts == {"invalid character '%c' looking for beginning of value",
               "json: cannot unmarshal %s into Go value of type %s"}
IsKeyNotFound(e) == e.fmt \in {KeyNotFoundFmt, jsonKeyNotFoundFmt}
IsIndexError(e) == e.fmt = IndexFmt
IsDecodeError(e) == e.fmt \in DecodeFmts
IsTypeMismatch(e) ==
    e # NilErr /\ ~IsKeyNotFound(e) /\ ~IsIndexError(e) /\ ~IsDecodeError(e)

\* plain nested lookup in the decoded tree, written without the accessors
Absent == [t |-> "absent"]
ByKey(step) == step.on \in MapTypes
RefChild(v, step) ==
    IF ByKey(step)
    THEN IF v.t = ObjT /\ step.key \in DOMAIN v.m THEN v.m[step.key] ELSE Absent
    ELSE IF v.t = ArrT /\ step.idx >= 0 /\ step.idx < Len(v.a) THEN v.a[step.idx + 1]
         ELSE Absent
Wanted(op) ==
    CASE op = "Map" -> ObjT
      [] op = "Array" -> ArrT
      [] op = "String" -> StrT
      [] op = "Bool" -> BoolT
      [] OTHER -> NumT
RefStepOk(v, step) == step.op \in LookupOps => RefChild(v, step).t = Wanted(step.op)
RefNext(v, step) == IF step.op \in NavOps THEN RefChild(v, step) ELSE v

RECURSIVE RefFail(_, _, _)
\* the first step from k on that fails in the tree v, 0 when none does
RefFail(v, steps, k) ==
    IF k > Len(steps) THEN 0
    ELSE IF ~RefStepOk(v, steps[k]) THEN k
    ELSE RefFail(RefNext(v, steps[k]), steps, k + 1)

RECURSIVE RefNode(_, _, _)
\* the node reached in v by the first n steps
RefNode(v, steps, n) ==
    IF n = 0 THEN v
    ELSE RefNext(RefNode(v, steps, n - 1), steps[n])

\* the last call is the last entry of the history
Complete ==
    /\ Len(chain) > 0
    /\ chain[Len(chain)].op = call.op
    /\ chain[Len(chain)].key = call.key
    /\ chain[Len(chain)].idx = call.idx
    /\ chain[Len(chain)].on = call.on

(***************************************************************************)
(* C1.  Errored is absorbing: a call on an accessor that holds an error e  *)
(* returns an accessor whose error is e (navigation) or returns e          *)
(* (terminal), whatever the argument; it never returns an Ok accessor.     *)
(***************************************************************************)
C1_ErroredAbsorbing ==
    (Called /\ Errored(recv)) =>
        /\ Produced = ErrOf(recv)
        /\ phase = "chain" => Errored(acc)

C1_Witness ==
    /\ Called /\ recv.typ = "Array" /\ Errored(recv)
    /\ call.op = "Map" /\ call.idx = 0
    /\ IsKeyNotFound(ErrOf(acc))

(***************************************************************************)
(* C2.  A chain reports only its first failure: when step k is the first   *)
(* step of the chain that fails in the decoded tree (absent key, index out *)
(* of range, wrong shape), the terminal call returns the error step k      *)
(* left, an error of that kind naming that key or index; when no step      *)
(* fails the terminal call returns no error.                               *)
(***************************************************************************)
FailureMatches(v, step, e) ==
    IF RefChild(v, step) # Absent THEN IsTypeMismatch(e)
    ELSE IF ByKey(step) THEN IsKeyNotFound(e) /\ e.args[1] = step.key
    ELSE IsIndexError(e) /\ e.args[1] = ToString(step.idx)

C2_FirstFailureReported ==
    (phase = "done" /\ ~Errored(root)) =>
        LET k == RefFail(Held(root), chain, 1)
        IN  IF k = 0 THEN Complete /\ ret.err = NilErr
            ELSE /\ k = Len(chain)
                 /\ chain[k].err # NilErr
                 /\ ret.err = chain[k].err
                 /\ FailureMatches(RefNode(Held(root), chain, k - 1), chain[k], ret.err)

\* Array("entries").Map(0).Float("score") on the README document
C2_Witness ==
    /\ phase = "done" /\ input = DocReadme /\ root.typ = "Map"
    /\ Len(chain) = 1 /\ chain[1].op = "Array" /\ chain[1].key = "entries"
    /\ recv.typ = "Map" /\ call.op = "Float" /\ call.key = "score"
    /\ ret.err.args[1] = "entries" /\ ret.err.args[3] = "people"

(***************************************************************************)
(* C3.  On success the chain returns the stored value: when every step of  *)
(* the chain succeeds in the decoded tree, String, Float and Bool return   *)
(* the value found by plain nested lookup, Len the length of the array     *)
(* reached and Inner the container reached, each with a nil error.         *)
(***************************************************************************)
C3_SuccessReturnsStoredValue ==
    (phase = "done" /\ ~Errored(root) /\ RefFail(Held(root), chain, 1) = 0 /\ Complete) =>
        LET node == RefNode(Held(root), chain, Len(chain))
        IN  /\ ret.err = NilErr
            /\ call.op \in {"String", "Float", "Bool"} => ret.val = RefChild(node, call)
            /\ call.op = "Len" => ret.val = IntV(IF node.t = ArrT THEN Len(node.a) ELSE 0)
            /\ call.op = "Inner" => ret.val = node

\* Array("people").Map(0).Float("score") = (89.5, nil)
C3_Witness ==
    /\ phase = "done" /\ input = DocReadme /\ root.typ = "Map"
    /\ Len(chain) = 3 /\ chain[1].key = "people" /\ chain[2].idx = 0
    /\ call.op = "Float" /\ call.key = "score"
    /\ ret = Ret(NumV(895), NilErr)


(***************************************************************************)
(* The path an error text carries, read off its format.                    *)
(***************************************************************************)
NavMapMismatchFmt == "item at path %s was a %T, not a map"
NavArrayMismatchFmt == "item at path %s was a %T, not an array"
MapStringMismatchFmt == "item with key '%s' at path %s was a %T, not a string"
HasPath(e) ==
    e.fmt \in {KeyNotFoundFmt, NavMapMismatchFmt, NavArrayMismatchFmt, MapStringMismatchFmt}
PathOf(e) ==
    IF e.fmt \in {KeyNotFoundFmt, MapStringMismatchFmt} THEN e.args[2] ELSE e.args[1]

\* the last call ran on an Ok accessor of the struct implementation and failed
StructCallFailed ==
    /\ Called /\ recv.typ \in StructTypes
    /\ ~Errored(recv)
    /\ Produced # NilErr

\* the receiver's path with the segment of the last call appended
ExtendedPath ==
    IF recv.typ = "Map" THEN recv.path \o "['" \o call.key \o "']"
    ELSE recv.path \o "[" \o ToString(call.idx) \o "]"

(***************************************************************************)
(* C4 as stated.  The path in the error of a failing call is the           *)
(* receiver's path, never the receiver's path extended with the failing    *)
(* key or index.                                                           *)
(***************************************************************************)
C4_ErrorPathIsReceiverPath ==
    (StructCallFailed /\ HasPath(Produced)) => PathOf(Produced) = recv.path

(***************************************************************************)
(* C4 as amended.  A key-not-found error carries the receiver's path; the  *)
(* type-mismatch error of a navigation call carries the path of the        *)
(* offending item, the receiver's path extended with the key or index,     *)
(* while the accessor returned keeps the receiver's path; a type-mismatch  *)
(* error of a terminal call that carries a path carries the receiver's.    *)
(***************************************************************************)
C4_PathInErrorText ==
    StructCallFailed =>
        /\ IsKeyNotFound(Produced) => PathOf(Produced) = recv.path
        /\ (IsTypeMismatch(Produced) /\ call.op \in NavOps) =>
              /\ HasPath(Produced)
              /\ PathOf(Produced) = ExtendedPath
              /\ acc.path = recv.path
        /\ (IsTypeMismatch(Produced) /\ call.op \notin NavOps /\ HasPath(Produced)) =>
              PathOf(Produced) = recv.path

\* Map("people") on the README document, where people is an array
C4_Witness ==
    /\ StructCallFailed /\ input = DocReadme
    /\ recv.path = "$" /\ call.op = "Map" /\ call.key = "people"
    /\ PathOf(Produced) = "$['people']"
    /\ acc.path = "$"

(***************************************************************************)
(* C5.  Accessor path invariant: the path of an accessor is the root path  *)
(* followed by one ['key'] or [idx] segment for each navigation step of    *)
(* the longest prefix of the chain in which every step succeeded; a failed *)
(* step returns an accessor with the receiver's path.                      *)
(***************************************************************************)
RECURSIVE Render(_, _, _)
Render(p, steps, n) ==
    IF n = 0 THEN p
    ELSE LET q == Render(p, steps, n - 1)
             st == steps[n]
         IN  IF st.op \notin NavOps THEN q
             ELSE IF ByKey(st) THEN q \o "['" \o st.key \o "']"
             ELSE q \o "[" \o ToString(st.idx) \o "]"

SucceededPrefix ==
    LET k == RefFail(Held(root), chain, 1)
    IN  IF k = 0 THEN Len(chain) ELSE k - 1

C5_PathIsSucceededPrefix ==
    (phase # "start" /\ acc.typ \in StructTypes) =>
        /\ acc.path = Render(root.path, chain, SucceededPrefix)
        /\ (Called /\ phase = "chain" /\ Errored(acc)) => acc.path = recv.path

\* Map("object").Array("nestedArrayFloatKey").Array(1): the last step fails
C5_Witness ==
    /\ phase = "chain" /\ input = DocSimple /\ Len(chain) = 3
    /\ call.op = "Array" /\ call.idx = 1
    /\ IsIndexError(acc.err)
    /\ acc.path = "$['object']['nestedArrayFloatKey']"

(***************************************************************************)
(* C6.  Every root accessor starts at the root marker: the accessor a      *)
(* constructor returns has path "$", on decode success and on failure.     *)
(***************************************************************************)
C6_RootPathIsDollar ==
    (Constructed /\ call.on = "luna") => acc.path = "$"

(***************************************************************************)
(* C7.  Key-not-found content: a keyed operation on an Ok Map accessor     *)
(* with a key absent from the held object fails with an error naming the   *)
(* requested key, the accessor's path, and as valid keys the keys of that  *)
(* object, each once, in some order.                                       *)
(***************************************************************************)
C7_KeyNotFoundContent ==
    (Called /\ recv.typ = "Map" /\ ~Errored(recv) /\ call.op \in LookupOps
       /\ RefChild(recv.m, call) = Absent) =>
        /\ Produced.fmt = KeyNotFoundFmt
        /\ Produced.args[1] = call.key
        /\ Produced.args[2] = recv.path
        /\ \E order \in RangeOrders(recv.m) : Produced.args[3] = Join(order, ", ")

\* Array("people").Map(0).Float("entries"): valid keys name and score
C7_Witness ==
    /\ phase = "done" /\ input = DocReadme /\ recv.typ = "Map"
    /\ recv.path = "$['people'][0]"
    /\ call.op = "Float" /\ call.key = "entries"
    /\ ret.err.args = <<"entries", "$['people'][0]", "score, name">>

(***************************************************************************)
(* C8.  Type-mismatch content: every type-mismatch error names the path,   *)
(* the actual runtime shape of the stored value and the expected shape.    *)
(***************************************************************************)
ExpectedFmts(op) ==
    CASE op = "Map" -> {NavMapMismatchFmt}
      [] op = "Array" -> {NavArrayMismatchFmt}
      [] op = "String" -> {MapStringMismatchFmt, "item at index %d was a %T, not a string"}
      [] op = "Bool" -> {"item with key %s was a %T, not a bool",
                         "item at index %d was a %T, not a bool"}
      [] OTHER -> {"item with key %s was a %T, not a float",
                   "item at index %d was a %T, not a float"}

C8_TypeMismatchContent ==
    (StructCallFailed /\ IsTypeMismatch(Produced)) =>
        /\ HasPath(Produced)
        /\ \E i \in DOMAIN Produced.args :
              Produced.args[i] = RefChild(Held(recv), call).t
        /\ Produced.fmt \in ExpectedFmts(call.op)

(***************************************************************************)
(* C9.  Index validation: on an Ok Array accessor of length n an indexed   *)
(* operation returns an index-out-of-range error exactly when idx < 0 or   *)
(* idx >= n, and the error names idx and the range 0..n-1; on an empty     *)
(* array index 0 is out of range and the range is 0..-1.                   *)
(***************************************************************************)
C9_IndexValidation ==
    (Called /\ recv.typ \in {"Array", "valueArray"} /\ ~Errored(recv)
       /\ call.op \in LookupOps) =>
        LET n == IF Held(recv).t = ArrT THEN Len(Held(recv).a) ELSE 0
            out == call.idx < 0 \/ call.idx >= n
        IN  /\ out <=> IsIndexError(Produced)
            /\ out => Produced.args = <<ToString(call.idx), ToString(n - 1)>>

\* index 0 on an empty array
C9_Witness ==
    /\ Called /\ recv.typ = "Array" /\ ~Errored(recv)
    /\ recv.a = ArrV(<<>>) /\ call.op = "String" /\ call.idx = 0
    /\ ret.err = Errorf(IndexFmt, <<"0", "-1">>)

(***************************************************************************)
(* C10.  Has never fails for absence: on an Ok Map accessor Has(key)       *)
(* returns (true, nil) when the key is in the held object and (false, nil) *)
(* when it is not; on an Errored accessor it returns (false, that error).  *)
(***************************************************************************)
C10_HasNeverFailsForAbsence ==
    (Called /\ call.op = "Has") =>
        IF Errored(recv) THEN ret = Ret(BoolV(FALSE), ErrOf(recv))
        ELSE ret = Ret(BoolV(RefChild(Held(recv), call) # Absent), NilErr)

C10_Witness ==
    /\ Called /\ call.op = "Has" /\ recv.typ = "Map" /\ ~Errored(recv)
    /\ recv.m = DocReadme /\ call.key = "entries"
    /\ ret = Ret(BoolV(FALSE), NilErr)

(***************************************************************************)
(* C11.  Len fails only on an Errored accessor: on an Ok Array accessor    *)
(* Len() returns the number of elements of the held array and a nil error, *)
(* (0, nil) for an empty array; on an Errored accessor it returns 0 and    *)
(* the accessor's error.                                                   *)
(***************************************************************************)
C11_LenFailsOnlyOnErrored ==
    (Called /\ phase = "done" /\ call.op = "Len") =>
        IF Errored(recv) THEN ret = Ret(IntV(0), ErrOf(recv))
        ELSE ret = Ret(IntV(IF Held(recv).t = ArrT THEN Len(Held(recv).a) ELSE 0), NilErr)

\* Array(2).Len() on [{"k":null,"b":true},[null],[]]: the empty array
C11_Witness ==
    /\ Called /\ phase = "done" /\ call.op = "Len"
    /\ recv.typ = "Array" /\ ~Errored(recv) /\ recv.a = ArrV(<<>>)
    /\ Len(chain) = 2 /\ chain[1].idx = 2
    /\ ret = Ret(IntV(0), NilErr)

(***************************************************************************)
(* The method without Must of a Must* method.                              *)
(***************************************************************************)
TwinOp(op) ==
    CASE op = "MustHas" -> "Has"
      [] op = "MustString" -> "String"
      [] op = "MustFloat" -> "Float"
      [] op = "MustInt" -> "Int"
      [] op = "MustBool" -> "Bool"
      [] op = "MustLen" -> "Len"
      [] op = "MustBytes" -> "Bytes"
      [] op = "MustInner" -> "Inner"

\* the last call was Must* method op and did what its twin's result t asks for
SignalsLike(t) ==
    IF t.err = NilErr THEN phase = "done" /\ pnc = NilErr /\ ret = Ret(t.val, NilErr)
    ELSE phase = "panicked" /\ pnc = t.err

(***************************************************************************)
(* C12.  Must* twins differ only in signalling: when the method without    *)
(* Must returns (v, nil) for the same receiver and argument, the Must*     *)
(* method returns v and does not panic; when it returns an error e, the    *)
(* Must* method panics with e.                                             *)
(***************************************************************************)
C12_MustTwinsAgree ==
    (Called /\ call.op \in MustOps) =>
        \E order \in RangeOrders(Held(recv)) :
            SignalsLike(Invoke(recv, TwinOp(call.op), call.key, call.idx, order))

(***************************************************************************)
(* C12 for every Must* method but MustBytes.                               *)
(***************************************************************************)
C12_MustTwinsAgreeButBytes ==
    (Called /\ call.op \in MustOps \ {"MustBytes"}) =>
        \E order \in RangeOrders(Held(recv)) :
            SignalsLike(Invoke(recv, TwinOp(call.op), call.key, call.idx, order))

(***************************************************************************)
(* C13.  Bytes and MustBytes agree on success: on an Ok accessor Bytes()   *)
(* returns (b, nil), b denotes the held sub-tree, and MustBytes() returns  *)
(* the same b.                                                             *)
(***************************************************************************)
C13_BytesAndMustBytesAgree ==
    (Called /\ call.op \in {"Bytes", "MustBytes"} /\ ~Errored(recv)) =>
        /\ phase = "done" /\ ret.err = NilErr
        /\ Decode(ret.val) = Held(recv)
        /\ Invoke(recv, "Bytes", "", 0, <<>>).val = Invoke(recv, "MustBytes", "", 0, <<>>).val

(***************************************************************************)
(* C14.  Round trip: when the bytes Bytes() returned for an accessor built *)
(* by NewMap(m) or NewArray(a) are decoded by MapFromBytes, respectively   *)
(* ArrayFromBytes, the accessor obtained is Ok and holds a tree equal to   *)
(* m, respectively a.                                                      *)
(***************************************************************************)
NativeRoots ==
    {NewMap(m) : m \in NativeMaps} \cup {jsonNewMap(m) : m \in NativeMaps}
    \cup {NewArray(a) : a \in NativeArrays} \cup {jsonNewArray(a) : a \in NativeArrays}

C14_RoundTrip ==
    (phase = "redecoded" /\ from.op = "Bytes" /\ from.acc \in NativeRoots) =>
        /\ ~Errored(acc)
        /\ Held(acc) = Held(from.acc)

(***************************************************************************)
(* C15.  Determinism: a call made a second time on the same receiver with  *)
(* the same argument gives what it gave the first time: the same accessor, *)
(* the same value, the same error text, the same panic value.              *)
(***************************************************************************)
C15_Determinism ==
    again.set => again = Outcome(acc, ret, pnc)

\* the error a call gave, however it was signalled
ErrGiven(o) ==
    IF o.pnc # NilErr THEN o.pnc
    ELSE IF o.ret.set THEN o.ret.err
    ELSE ErrOf(o.acc)

(***************************************************************************)
(* C15 up to the order of the valid keys: the second call gives what the   *)
(* first gave, or both fail with a key-not-found error for the same key    *)
(* that differs in its list of valid keys only.                            *)
(***************************************************************************)
C15_DeterminismButKeyOrder ==
    again.set =>
        \/ again = Outcome(acc, ret, pnc)
        \/ LET e1 == ErrGiven(Outcome(acc, ret, pnc))
               e2 == ErrGiven(again)
           IN  /\ e1.fmt = e2.fmt
               /\ e1.fmt \in {KeyNotFoundFmt, jsonKeyNotFoundFmt}
               /\ e1.args[1] = e2.args[1]
               /\ Len(e1.args) = Len(e2.args)
               /\ again.ret.val = ret.val
               /\ Held(again.acc) = Held(acc)

(***************************************************************************)
(* C16.  Decode outcome at construction: MapFromBytes, MapFromReader,      *)
(* ArrayFromBytes and ArrayFromReader never panic.  When the input is      *)
(* well-formed JSON of the requested shape (or null) the accessor returned *)
(* is Ok and holds the decoded tree; otherwise it is Errored, holds no     *)
(* value, its error is the decoder's error, and every later navigation or  *)
(* terminal call gives that error unchanged.                               *)
(***************************************************************************)
DecodeCtors == {"MapFromBytes", "MapFromReader", "ArrayFromBytes", "ArrayFromReader"}
TargetOf(ctor) == IF ctor \in {"MapFromBytes", "MapFromReader"} THEN ObjT ELSE ArrT
DecoderAccepts(b, target) == b # Malformed /\ b.t \in {NilT, target}

C16_DecodeOutcome ==
    /\ (Constructed /\ call.op \in DecodeCtors) =>
          /\ pnc = NilErr /\ phase # "panicked"
          /\ acc = root
          /\ IF DecoderAccepts(input, TargetOf(call.op))
             THEN ~Errored(acc) /\ Held(acc) = input
             ELSE /\ Errored(acc) /\ Held(acc) = NilV
                  /\ IsDecodeError(ErrOf(acc))
                  /\ ErrOf(acc) = Unmarshal(input, TargetOf(call.op)).err
    /\ (Called /\ Errored(root)) =>
          /\ IsDecodeError(ErrOf(root))
          /\ ErrOf(acc) = ErrOf(root)
          /\ ErrGiven(Outcome(acc, ret, pnc)) = ErrOf(root)

\* malformed bytes handed to ArrayFromReader, then String(1): the decoder's error
C16_Witness ==
    /\ Called /\ phase = "done" /\ input = Malformed
    /\ root.typ = "Array" /\ Errored(root) /\ recv = root
    /\ call.op = "String" /\ call.idx = 1
    /\ ret = Ret(StrV(""), Unmarshal(Malformed, ArrT).err)

(***************************************************************************)
(* C17.  Zero value with every error: a terminal call that returns a       *)
(* non-nil error returns the zero value of its result type beside it: ""   *)
(* for String, 0 for Float, Int and Len, false for Bool and Has, nil for   *)
(* Bytes and Inner.                                                        *)
(***************************************************************************)
TerminalOps == {"String", "Float", "Int", "Bool", "Has", "Len", "Bytes", "Inner"}
ZeroOf(op) ==
    CASE op = "String" -> StrV("")
      [] op = "Float" -> NumV(0)
      [] op \in {"Int", "Len"} -> IntV(0)
      [] op \in {"Bool", "Has"} -> BoolV(FALSE)
      [] op \in {"Bytes", "Inner"} -> NilV

C17_ZeroValueWithError ==
    (Called /\ phase = "done" /\ call.op \in TerminalOps /\ ret.err # NilErr) =>
        ret.val = ZeroOf(call.op)

\* simpleJson: Map("object").Array("nestedArrayFloatKey").Array(1).Float(2)
C17_Witness ==
    /\ Called /\ phase = "done" /\ input = DocSimple
    /\ Len(chain) = 3 /\ chain[3].op = "Array" /\ chain[3].idx = 1
    /\ call.op = "Float" /\ call.idx = 2
    /\ IsIndexError(ret.err)
    /\ ret.val = NumV(0)

(***************************************************************************)
(* C18.  Int truncates toward zero: when the item looked up is a number x, *)
(* Int returns the integer part of x with no error: 4.9 gives 4, -4.9      *)
(* gives -4, 42 gives 42.  It never rounds to the nearest integer and      *)
(* never fails because x has a fraction.                                   *)
(***************************************************************************)
Abs(i) == IF i < 0 THEN -i ELSE i
\* the integer of the sign of x whose magnitude is the largest not above that of x
\* (numbers are held in tenths)
IntegerPart(x) ==
    CHOOSE t \in -Abs(x)..Abs(x) :
        /\ (x >= 0 => t >= 0) /\ (x <= 0 => t <= 0)
        /\ 10 * Abs(t) <= Abs(x)
        /\ Abs(x) < 10 * (Abs(t) + 1)

C18_IntTruncatesTowardZero ==
    (Called /\ call.op \in {"Int", "MustInt"} /\ ~Errored(recv)
       /\ RefChild(Held(recv), call).t = NumT) =>
        /\ phase = "done" /\ pnc = NilErr
        /\ ret = Ret(IntV(IntegerPart(RefChild(Held(recv), call).n)), NilErr)

\* simpleJson: Map("object").Array("nestedArrayFloatKey").Array(0).Int(0) on -4.9
C18_Witness ==
    /\ Called /\ phase = "done" /\ input = DocSimple
    /\ call.op = "Int" /\ call.idx = 0 /\ recv.typ = "valueArray"
    /\ Held(recv) = ArrV(<<NumV(-49), NumV(49), NumV(420)>>)
    /\ ret = Ret(IntV(-4), NilErr)

\* the same array: Int(1) on 4.9 gives 4, and Int(2) on 42 gives 42
C18_WitnessPositive ==
    /\ Called /\ phase = "done" /\ call.op = "Int"
    /\ Held(recv) = ArrV(<<NumV(-49), NumV(49), NumV(420)>>)
    /\ \/ call.idx = 1 /\ ret = Ret(IntV(4), NilErr)
       \/ call.idx = 2 /\ ret = Ret(IntV(42), NilErr)

(***************************************************************************)
(* The accessors a state holds: the root, the current accessor, the        *)
(* receiver of the last call, the accessor a repeated navigation returned  *)
(* and the accessor whose bytes were decoded again.                        *)
(***************************************************************************)
Accessors == {a \in {root, acc, recv, again.acc, from.acc} : a.typ # "none"}
ShapeOf(a) == IF a.typ \in MapTypes THEN ObjT ELSE ArrT

(***************************************************************************)
(* C19 as stated.  Every accessor is in exactly one of two states: Ok, its *)
(* error is nil and it holds the object or array value, or Errored, its    *)
(* error is non-nil and its held value is nil; no accessor holds both a    *)
(* non-nil value and a non-nil error.                                      *)
(***************************************************************************)
C19_OkXorErrored ==
    \A a \in Accessors :
        /\ ~Errored(a) => Held(a).t = ShapeOf(a)
        /\ Errored(a) => Held(a) = NilV

(***************************************************************************)
(* C19, amended.  An Errored accessor holds a nil value, so no accessor    *)
(* holds both a non-nil value and a non-nil error.  An accessor whose      *)
(* error is nil holds an object (Map) or an array (Array), or it is a root *)
(* accessor over the document null or over a nil native container and      *)
(* holds a nil value.                                                      *)
(***************************************************************************)
C19_AccessorState ==
    \A a \in Accessors :
        /\ Errored(a) => Held(a) = NilV
        /\ ~(Held(a) # NilV /\ ErrOf(a) # NilErr)
        /\ ~Errored(a) =>
              \/ Held(a).t = ShapeOf(a)
              \/ /\ Held(a) = NilV
                 /\ a \in {root, from.acc}
                 /\ a = root => input = NilV

\* README document: Array("people").Map(0).Map("entries") fails on an absent key
C19_Witness ==
    /\ Called /\ phase = "chain" /\ input = DocReadme /\ root.typ = "Map"
    /\ ~Errored(recv) /\ Held(recv).t = ObjT
    /\ call.op = "Map" /\ call.key = "entries"
    /\ IsKeyNotFound(ErrOf(acc)) /\ Held(acc) = NilV

\* the document null: an accessor with a nil error and a nil value
C19_WitnessNull ==
    /\ Constructed /\ call.op = "MapFromBytes" /\ input = NilV
    /\ ~Errored(root) /\ Held(root) = NilV

KeyedOps == LookupOps \cup {"MustString", "MustFloat", "MustInt", "MustBool"}
WantedBy(op) == IF op \in MustOps THEN Wanted(TwinOp(op)) ELSE Wanted(op)

C22_OrderOfChecks ==
    (Called /\ call.op \in KeyedOps) =>
        LET e == ErrGiven(Outcome(acc, ret, pnc))
            x == RefChild(Held(recv), call)
        IN  IF Errored(recv) THEN e = ErrOf(recv)
            ELSE IF x = Absent
            THEN IF call.on \in MapTypes THEN IsKeyNotFound(e) ELSE IsIndexError(e)
            ELSE IF x.t # WantedBy(call.op) THEN IsTypeMismatch(e)
            ELSE e = NilErr

\* README document: Array("people").Map(0).String("entries") on an absent key
C22_Witness ==
    /\ Called /\ phase = "done" /\ input = DocReadme /\ recv.typ = "Map"
    /\ ~Errored(recv) /\ Held(recv) = DocReadme.m["people"].a[1]
    /\ call.op = "String" /\ call.key = "entries"
    /\ IsKeyNotFound(ret.err) /\ ~IsTypeMismatch(ret.err)

\* an array document: String(3) on an index out of range, String(1) on an array
C22_WitnessIndex ==
    /\ Called /\ phase = "done" /\ input = DocArray /\ recv = root
    /\ call.op = "String"
    /\ \/ call.idx = 3 /\ IsIndexError(ret.err)
       \/ call.idx = 1 /\ IsTypeMismatch(ret.err)

(***************************************************************************)
(* C23.  Err reflects the accessor state: Err() returns nil exactly when   *)
(* the accessor is Ok; on an Errored accessor it returns the frozen error, *)
(* which is the error every terminal call on that accessor returns; and    *)
(* the accessor that Map(key) or Array(key) returns for an absent key has  *)
(* a non-nil Err() before any terminal call is made.                       *)
(***************************************************************************)
\* the state of an accessor, read from its representation
OkState(a) ==
    IF a.typ \in StructTypes THEN a.err = NilErr
    ELSE a.typ \in {"valueMap", "valueArray"}
Err(a) == Invoke(a, "Err", "", 0, <<>>).err
TerminalsOf(a) ==
    {"String", "Float", "Int", "Bool", "Bytes", "Inner"}
    \cup (IF a.typ \in MapTypes THEN {"Has"} ELSE {"Len"})

C23_ErrReflectsState ==
    /\ \A a \in Accessors :
          /\ Err(a) = NilErr <=> OkState(a)
          /\ ~OkState(a) =>
                \A op \in TerminalsOf(a), x \in ArgsOf(a) :
                    Invoke(a, op, x.key, x.idx, <<>>).err = Err(a)
    /\ (Called /\ call.op \in NavOps /\ call.on \in MapTypes /\ OkState(recv)
          /\ RefChild(Held(recv), call) = Absent) =>
          /\ phase = "chain"
          /\ Err(acc) # NilErr
          /\ IsKeyNotFound(Err(acc))

\* all_test.go TestMissingArrayLen: Array("entries") on the root of simpleJson
C23_Witness ==
    /\ Called /\ phase = "chain" /\ input = DocSimple /\ recv = root
    /\ OkState(recv)
    /\ call.op = "Array" /\ call.key = "entries"
    /\ ~OkState(acc) /\ IsKeyNotFound(Err(acc))

(***************************************************************************)
(* C24.  A failed terminal call does not poison the accessor: after        *)
(* String, Float, Bool, Int or Has on an Ok accessor has returned an       *)
(* error, the accessor is Ok as before, its Err() is nil, and every call   *)
(* on it with a present key or an index in range of the right shape        *)
(* succeeds with the stored item.  An accessor becomes Errored only as the *)
(* result of a constructor or of a navigation call.                        *)
(***************************************************************************)
ValueOps == {"String", "Float", "Bool", "Int"}
\* what a successful op returns for the item x
Got(op, x) == IF op = "Int" THEN IntV(IntOfFloat(x.n)) ELSE x

StaysOk ==
    (Called /\ phase = "done" /\ call.op \in ValueOps \cup {"Has"}
       /\ OkState(recv) /\ ret.err # NilErr) =>
        /\ acc = recv
        /\ OkState(acc) /\ Err(acc) = NilErr
        /\ \A op \in ValueOps, x \in ArgsOf(acc), order \in RangeOrders(Held(acc)) :
              LET item == RefChild(Held(acc), [on |-> acc.typ, key |-> x.key, idx |-> x.idx])
              IN  (item # Absent /\ item.t = Wanted(op)) =>
                      Invoke(acc, op, x.key, x.idx, order) = Ret(Got(op, item), NilErr)

ErroredOnlyByNavigation ==
    (acc.typ # "none" /\ OkState(acc) /\ ~OkState(acc')) =>
        call'.op \in NavOps \cup DecodeCtors

C25_NullIsPresent ==
    (Called /\ OkState(recv) /\ RefChild(Held(recv), call) = NilV) =>
        /\ call.op = "Has" => phase = "done" /\ ret = Ret(BoolV(TRUE), NilErr)
        /\ call.op \in LookupOps =>
              LET e == ErrGiven(Outcome(acc, ret, pnc))
              IN  IsTypeMismatch(e) /\ ~IsKeyNotFound(e) /\ ~IsIndexError(e)

\* [{"k":null,"b":true},[null],[]]: Map(0).String("k") is a type mismatch
C25_Witness ==
    /\ Called /\ phase = "done" /\ input = DocArray
    /\ recv.typ = "Map" /\ OkState(recv) /\ Held(recv) = DocArray.a[1]
    /\ call.op = "String" /\ call.key = "k"
    /\ IsTypeMismatch(ret.err)

\* the same document: Map(0).Has("k") is true, and Array(1).Float(0) is a type mismatch
C25_WitnessHasAndIndex ==
    /\ Called /\ phase = "done" /\ input = DocArray /\ OkState(recv)
    /\ \/ call.op = "Has" /\ call.key = "k" /\ ret = Ret(BoolV(TRUE), NilErr)
       \/ /\ call.op = "Float" /\ call.idx = 0 /\ Held(recv) = ArrV(<<NilV>>)
          /\ IsTypeMismatch(ret.err)

(***************************************************************************)
(* C26.  Int fails exactly when Float fails: for the same receiver, Ok or  *)
(* Errored, and the same key or index, Int returns an error if and only if *)
(* Float does, the two errors are of the same kind (the frozen error,      *)
(* key-not-found, index out of range or type mismatch), and with an error  *)
(* Int returns 0.                                                          *)
(***************************************************************************)
KindOf(e) ==
    IF e = NilErr THEN "none"
    ELSE IF IsDecodeError(e) THEN "decode"
    ELSE IF IsKeyNotFound(e) THEN "key-not-found"
    ELSE IF IsIndexError(e) THEN "index-out-of-range"
    ELSE "type-mismatch"

C26_IntFailsWhenFloatFails ==
    (Called /\ phase = "done" /\ call.op \in {"Int", "Float"}) =>
        \A order \in RangeOrders(Held(recv)) :
            LET other == Invoke(recv, IF call.op = "Int" THEN "Float" ELSE "Int",
                                call.key, call.idx, order)
                i == IF call.op = "Int" THEN ret ELSE other
                f == IF call.op = "Int" THEN other ELSE ret
            IN  /\ i.err # NilErr <=> f.err # NilErr
                /\ KindOf(i.err) = KindOf(f.err)
                /\ ~OkState(recv) => i.err = Err(recv) /\ f.err = Err(recv)
                /\ i.err # NilErr => i.val = IntV(0)

\* README document: Array("people").Map(0).Int("name") fails as Float("name") does
C26_Witness ==
    /\ Called /\ phase = "done" /\ input = DocReadme /\ recv.typ = "valueMap"
    /\ call.op = "Int" /\ call.key = "name"
    /\ ret.val = IntV(0) /\ IsTypeMismatch(ret.err)
    /\ IsTypeMismatch(Invoke(recv, "Float", "name", 0, <<"name", "score">>).err)

\* malformed bytes: Int on the Errored root gives the decoder's error, as Float does
C26_WitnessFrozen ==
    /\ Called /\ phase = "done" /\ input = Malformed /\ recv.typ = "errorMap"
    /\ call.op = "Int" /\ ret = Ret(IntV(0), Err(recv))
    /\ Invoke(recv, "Float", call.key, 0, <<>>).err = Err(recv)

(***************************************************************************)
(* The same chain in the other representation.                             *)
(***************************************************************************)
\* the root the other implementation builds from the same document
OtherRoot ==
    CASE root.typ = "Map" -> jsonMapFromBytes(input)
      [] root.typ = "Array" -> jsonArrayFromBytes(input)
      [] root.typ \in {"valueMap", "errorMap"} -> MapFromBytes(input)
      [] root.typ \in {"valueArray", "errorArray"} -> ArrayFromBytes(input)

AnyOrder(a) == CHOOSE o \in RangeOrders(Held(a)) : TRUE

RECURSIVE Replay(_, _, _)
\* the accessor the first n steps reach from a
Replay(a, steps, n) ==
    IF n = 0 THEN a
    ELSE LET p == Replay(a, steps, n - 1)
         IN  IF steps[n].op \in NavOps
             THEN Invoke(p, steps[n].op, steps[n].key, steps[n].idx, AnyOrder(p))
             ELSE p

\* the receiver of the last call in the other implementation.  The history
\* holds the last call exactly when its receiver was Ok, and stops at the first
\* failure: the navigation calls made after it are seen in the receiver's type
\* only, and one of them is made here when that type is not the one reached.
OtherRecv ==
    LET o == Replay(OtherRoot, chain, IF OkState(recv) THEN Len(chain) - 1 ELSE Len(chain))
    IN  IF (o.typ \in MapTypes) = (recv.typ \in MapTypes) THEN o
        ELSE Invoke(o, IF recv.typ \in MapTypes THEN "Map" ELSE "Array", "", 0, AnyOrder(o))

\* two accessors in the same state
Agree(a, b) ==
    /\ OkState(a) <=> OkState(b)
    /\ KindOf(Err(a)) = KindOf(Err(b))
    /\ Held(a) = Held(b)

\* the struct of map.go in the state of the accessor a
Pathless(a) ==
    IF a.typ \in MapTypes THEN pathlessMap(Held(a), Err(a)) ELSE pathlessArray(Held(a), Err(a))
PathlessHeld(b) == IF b.typ = "pathlessMap" THEN b.m ELSE b.a

ComparedOps == {"String", "Float", "Bool", "Len", "Has", "Err"}

(***************************************************************************)
(* C27.  The two representations of an accessor agree: for every document  *)
(* and every chain of navigation calls ended by String, Float, Bool, Len,  *)
(* Has or Err, the interface-based implementation and the struct-based     *)
(* implementation agree, step by step, on whether the accessor is Ok or    *)
(* Errored, on the kind of the error and on the value returned.  The       *)
(* struct of map.go agrees with them on every call on a Map accessor.      *)
(***************************************************************************)
C27_RepresentationsAgree ==
    /\ Constructed => Agree(root, OtherRoot)
    /\ (Called /\ call.op \in NavOps \cup ComparedOps) =>
          LET o == Invoke(OtherRecv, call.op, call.key, call.idx, AnyOrder(OtherRecv))
          IN  /\ Agree(recv, OtherRecv)
              /\ IF call.op \in NavOps THEN Agree(acc, o)
                 ELSE ret.val = o.val /\ KindOf(ret.err) = KindOf(o.err)
    /\ (Called /\ call.on \in MapTypes /\ call.op \in NavOps \cup (ComparedOps \ {"Len"})) =>
          LET p == pathlessMapMethod(Pathless(recv), call.op, call.key, AnyOrder(recv))
          IN  IF call.op \in NavOps
              THEN /\ OkState(acc) <=> p.err = NilErr
                   /\ KindOf(Err(acc)) = KindOf(p.err)
                   /\ Held(acc) = PathlessHeld(p)
                   /\ p.typ = IF call.op = "Map" THEN "pathlessMap" ELSE "pathlessArray"
              ELSE ret.val = p.val /\ KindOf(ret.err) = KindOf(p.err)

\* README document in the interface-based implementation:
\* Array("people").Map(0).Float("score") gives 89.5, as the struct does
C27_Witness ==
    /\ Called /\ phase = "done" /\ input = DocReadme /\ root.typ = "valueMap"
    /\ Len(chain) = 3 /\ call.op = "Float" /\ call.key = "score"
    /\ ret = Ret(NumV(895), NilErr)
    /\ OtherRecv.typ = "Map" /\ OtherRecv.path = "$['people'][0]"
    /\ Invoke(OtherRecv, "Float", "score", 0, <<"name", "score">>) = ret

\* the same document in the struct: Array("entries").Map(0) is Errored with
\* key-not-found in both
C27_WitnessErrored ==
    /\ Called /\ phase = "chain" /\ input = DocReadme /\ root.typ = "Map"
    /\ Len(chain) = 1 /\ chain[1].op = "Array" /\ chain[1].key = "entries"
    /\ call.op = "Map" /\ call.idx = 0 /\ ~OkState(recv)
    /\ OtherRecv.typ = "errorArray" /\ IsKeyNotFound(Err(OtherRecv))

(***************************************************************************)
(* A reader's chain run alone, from the accessor as it was built.          *)
(***************************************************************************)
RECURSIVE Alone(_, _, _)
\* the accessor the first n calls of steps reach from a
Alone(a, steps, n) ==
    IF n = 0 THEN a
    ELSE LET p == Alone(a, steps, n - 1)
             s == steps[n]
         IN  IF s.op \in NavOps THEN Invoke(p, s.op, s.key, s.idx, s.order) ELSE p

\* the calls of reader r that have returned
Returned(r) ==
    IF readers[r].pc = "running" THEN Len(readers[r].steps) - 1 ELSE Len(readers[r].steps)

====
